---------------------------- MODULE Spec2Model ----------------------------
(***************************************************************************)
(* Validation pipeline of the Super Scraper Suite:                         *)
(*   - ScrapingValidator (validator.py): the heuristic classifier,         *)
(*   - response collectors (response_collector.py): the normalizer,        *)
(*   - ValidationCache / ValidationManager (validation_manager.py),        *)
(*   - AdvancedCache (validation_performance.py),                          *)
(*   - recovery strategies (validation_error_handling.py).                 *)
(*                                                                         *)
(* Python values are modelled by tokens with attribute tables (a string    *)
(* token stands for one concrete Python value, see the Py* operators).     *)
(* Hashes (md5, sha256) are taken to be collision free: a cache key is the *)
(* tuple of the components that are hashed.  Floats are exact rationals    *)
(* <<numerator, denominator>>.                                             *)
(***************************************************************************)
EXTENDS Integers, Sequences, FiniteSets, TLC

(***************************************************************************)
(* Exact rational arithmetic for scores.                                   *)
(***************************************************************************)
\* F of the one element of the set S: the element is evaluated once, however
\* often F uses it
With(S, F(_)) == CHOOSE y \in {F(v) : v \in S} : TRUE

RECURSIVE GCD(_, _)
GCD(a, b) == IF b = 0 THEN a ELSE With({a % b}, LAMBDA m : GCD(b, m))

RNorm(r) ==
  With({r}, LAMBDA v :
    With({GCD(IF v[1] < 0 THEN -v[1] ELSE v[1], v[2])}, LAMBDA g :
      IF g = 0 THEN <<0, 1>> ELSE <<v[1] \div g, v[2] \div g>>))

RAdd(a, b) == With({a}, LAMBDA x : With({b}, LAMBDA y :
                RNorm(<<x[1] * y[2] + y[1] * x[2], x[2] * y[2]>>)))
RSub(a, b) == With({a}, LAMBDA x : With({b}, LAMBDA y :
                RNorm(<<x[1] * y[2] - y[1] * x[2], x[2] * y[2]>>)))
RMul(a, b) == With({a}, LAMBDA x : With({b}, LAMBDA y :
                RNorm(<<x[1] * y[1], x[2] * y[2]>>)))
RDiv(a, b) == With({a}, LAMBDA x : With({b}, LAMBDA y :
                RNorm(<<x[1] * y[2], x[2] * y[1]>>)))
RLt(a, b)  == With({a}, LAMBDA x : With({b}, LAMBDA y : x[1] * y[2] < y[1] * x[2]))
RLeq(a, b) == With({a}, LAMBDA x : With({b}, LAMBDA y : x[1] * y[2] <= y[1] * x[2]))
RMax(a, b) == With({a}, LAMBDA x : With({b}, LAMBDA y : IF RLt(x, y) THEN y ELSE x))
RMin(a, b) == With({a}, LAMBDA x : With({b}, LAMBDA y : IF RLt(y, x) THEN y ELSE x))
Frac(n, d) == RNorm(<<n, d>>)
RZero == <<0, 1>>
ROne  == <<1, 1>>

RECURSIVE RSum(_)
RSum(s) == With({s}, LAMBDA t :
             IF t = <<>> THEN RZero ELSE RAdd(Head(t), RSum(Tail(t))))

\* number of elements of sequence s satisfying P
SeqCount(s, P(_)) == With({s}, LAMBDA t : Cardinality({i \in 1..Len(t) : P(t[i])}))

RECURSIVE SelectIdx(_, _, _)
\* the subsequence of s at the indices in I, from index i on
SelectIdx(s, I, i) ==
  IF i > Len(s) THEN <<>>
  ELSE (IF i \in I THEN <<s[i]>> ELSE <<>>) \o SelectIdx(s, I, i + 1)

SeqFilter(s, P(_)) ==
  With({s}, LAMBDA t :
    With({{i \in 1..Len(t) : P(t[i])}}, LAMBDA I : SelectIdx(t, I, 1)))

SeqRange(s) == {s[i] : i \in 1..Len(s)}

(***************************************************************************)
(* Python values of record fields.  Each token is one concrete value.      *)
(***************************************************************************)
NoValue == "absent"            \* the key is missing: item.get(field) is None

PyValues ==
  { "absent",      \* key missing
    "None",        \* None
    "empty",       \* ''
    "NA",          \* 'N/A'
    "na_lower",    \* 'n/a'
    "attic",       \* 'A Light in the Attic'
    "velvet",      \* 'Tipping the Velvet'
    "loading",     \* 'loading...'
    "f51",         \* 51.77  (float)
    "i0",          \* 0      (int)
    "sprice",      \* '$53.74' (str)
    "img_a",       \* 'https://a.example/1.jpg'
    "img_b" }      \* 'https://b.example/2.jpg'

\* bool(value)
PyTruthy(v) == v \notin {"absent", "None", "empty", "i0"}

\* type(value).__name__
PyType(v) ==
  CASE v \in {"absent", "None"} -> "NoneType"
    [] v = "f51" -> "float"
    [] v = "i0"  -> "int"
    [] OTHER     -> "str"

\* str(value).strip() in ['', 'None', 'null', 'N/A']  (the comparison is exact)
PyStrIsPlaceholder(v) == v \in {"None", "absent", "empty", "NA"}

\* len(str(value))
PyStrLen(v) ==
  CASE v = "attic"   -> 20
    [] v = "velvet"  -> 18
    [] v = "loading" -> 10
    [] v = "NA"      -> 3
    [] v = "na_lower" -> 3
    [] v = "empty"   -> 0
    [] v = "f51"     -> 5
    [] v = "i0"      -> 1
    [] v = "sprice"  -> 6
    [] v \in {"img_a", "img_b"} -> 23
    [] OTHER         -> 4

\* str(value).strip().lower()
PyLowerStrip(v) == IF v = "NA" THEN "na_lower" ELSE v

\* some placeholder_pattern of _analyze_title_quality matches the lowered title
TitleMatchesPlaceholder(v) == v \in {"loading", "None", "empty", "i0"}

\* urlparse(str(value)).netloc, "" when there is none
UrlNetloc(v) ==
  CASE v = "img_a" -> "a.example"
    [] v = "img_b" -> "b.example"
    [] OTHER       -> ""

ExpectedFields ==
  <<"title", "price", "description", "image_url", "stock_availability", "sku">>

\* item.get(field)
ItemGet(item, f) == IF f \in DOMAIN item THEN item[f] ELSE NoValue

(***************************************************************************)
(* Canonical response data: [url, status_code, headers, content].          *)
(* headers is the sequence of header names in dict order; a content token  *)
(* stands for one page text, a url token for one URL.  ReSearch is         *)
(* re.search(pattern, text, re.IGNORECASE) on these tokens.                *)
(***************************************************************************)
Contents ==
  { "",               \* empty body
    "plain",          \* '<html><body><h1>Product Page</h1></body></html>'
    "captcha",        \* 'Please complete the captcha'
    "captcha_login",  \* 'Captcha required. Please log in'
    "denied_cf",      \* 'Access denied - Cloudflare'
    "human" }         \* 'Please verify you are human'

HeaderNames == {"content-type", "cf-ray", "x-akamai-id", "x-blocked-by"}

Urls == {"unknown", "https://example.com", "https://example.com/login"}

ReSearch(pattern, text) ==
  <<pattern, text>> \in
    { <<"captcha", "captcha">>, <<"captcha", "captcha_login">>,
      <<"please log in", "captcha_login">>,
      <<"access denied", "denied_cf">>,
      <<"cloudflare", "denied_cf">>,
      <<"verify.you.are.human", "human">>,
      <<"cf-ray", "cf-ray">>,
      <<"akamai", "x-akamai-id">>, <<"x-akamai", "x-akamai-id">>,
      <<"/login|/signin|/auth", "https://example.com/login">> }

\* validator.py _load_blocking_indicators: category -> indicators, in dict order
load_blocking_indicators ==
  << <<"captcha_indicators",
        <<"captcha", "recaptcha", "hcaptcha", "prove you are human",
          "verify you are not a robot", "security check">> >>,
     <<"login_indicators",
        <<"please log in", "sign in required", "authentication required",
          "please sign in", "login to continue">> >>,
     <<"access_denied_indicators",
        <<"access denied", "forbidden", "not authorized", "permission denied",
          "you do not have permission", "access restricted">> >>,
     <<"rate_limit_indicators",
        <<"rate limit", "too many requests", "request limit exceeded",
          "temporarily unavailable", "try again later">> >> >>

\* validator.py _load_bot_signatures: <<system, pattern, confidence * 100>> in
\* iteration order
load_bot_signatures_headers ==
  << <<"cloudflare", "cf-ray", 90>>, <<"cloudflare", "cf-cache-status", 80>>,
     <<"cloudflare", "cf-request-id", 80>>, <<"cloudflare", "server.*cloudflare", 90>>,
     <<"akamai", "akamai", 90>>, <<"akamai", "x-akamai", 90>>, <<"akamai", "ak-", 70>>,
     <<"perimeterx", "x-px", 90>>, <<"perimeterx", "perimeterx", 90>>,
     <<"incapsula", "x-iinfo", 90>>, <<"incapsula", "incap_ses", 90>>,
     <<"incapsula", "incapsula", 80>>,
     <<"distil", "x-distil", 90>>, <<"distil", "distil", 80>>,
     <<"datadome", "x-dd", 90>>, <<"datadome", "datadome", 90>>,
     <<"fastly", "fastly", 80>>, <<"fastly", "x-served-by.*fastly", 90>> >>

load_bot_signatures_content ==
  << <<"cloudflare", "ray.id.*[a-f0-9]{16}", 80>>, <<"cloudflare", "cloudflare", 60>>,
     <<"cloudflare", "checking.your.browser", 90>>,
     <<"akamai", "reference.*[0-9a-f]{8}\\.[0-9a-f]{8}", 70>>, <<"akamai", "akamai", 60>>,
     <<"perimeterx", "px-.*captcha", 90>>, <<"perimeterx", "perimeterx", 70>>,
     <<"incapsula", "incap_ses_[0-9]+", 80>>, <<"incapsula", "incapsula.incident", 90>>,
     <<"custom", "please.complete.the.security.check", 70>>,
     <<"custom", "verify.you.are.human", 70>>,
     <<"custom", "anti.?robot.validation", 70>> >>

\* validator.py BotDetectionSystem: the values of the enum
BotDetectionSystem ==
  {"none", "cloudflare", "akamai", "perimeterx", "incapsula", "distil",
   "datadome", "fastly", "custom_system"}

\* validator.py _get_block_type_from_category
get_block_type_from_category(category) ==
  CASE category = "captcha_indicators"       -> "captcha"
    [] category = "login_indicators"         -> "login_required"
    [] category = "access_denied_indicators" -> "access_denied"
    [] category = "rate_limit_indicators"    -> "rate_limited"
    [] OTHER                                 -> "http_error"

\* validator.py _analyze_blocking: blocking_status_codes
blocking_status_codes ==
  (403 :> <<"Access forbidden", "access_denied", 90>>) @@
  (429 :> <<"Rate limited", "rate_limited", 95>>) @@
  (503 :> <<"Service unavailable - possible blocking", "http_error", 80>>) @@
  (401 :> <<"Authentication required", "login_required", 90>>) @@
  (451 :> <<"Unavailable for legal reasons", "geographic_block", 90>>)

blocking_url_patterns ==
  <<"/login|/signin|/auth", "/blocked|/banned|/denied",
    "/captcha|/challenge", "/error|/403|/404">>

suspicious_headers ==
  << <<"cf-ray", "Cloudflare detected", 60>>,
     <<"x-blocked-by", "Explicit blocking header", 90>>,
     <<"x-access-denied", "Access denied header", 90>> >>

IMax(a, b) == IF a < b THEN b ELSE a

\* an entry of issues or warnings: the message's fixed text and its argument(s)
Issue(text, arg) == <<text, <<arg>>>>

\* the first indicator of a category found in the content, "" when none is
FirstIndicator(indicators, content) ==
  LET hits == {i \in 1..Len(indicators) : ReSearch(indicators[i], content)}
  IN  IF hits = {} THEN ""
      ELSE indicators[CHOOSE i \in hits : \A j \in hits : i <= j]

RECURSIVE ContentScan(_, _, _)
\* the content loop of _analyze_blocking from category k on: every category with a
\* hit sets is_blocked, overwrites block_type and appends one issue
ContentScan(analysis, content, k) ==
  IF k > Len(load_blocking_indicators) THEN analysis
  ELSE LET category == load_blocking_indicators[k][1]
           hit      == FirstIndicator(load_blocking_indicators[k][2], content)
       IN  IF hit = "" THEN ContentScan(analysis, content, k + 1)
           ELSE ContentScan(
                  [analysis EXCEPT
                     !.is_blocked = TRUE,
                     !.block_type = get_block_type_from_category(category),
                     !.issues     = Append(@, Issue("Content blocking detected", hit)),
                     !.confidence = IMax(@, 85)],
                  content, k + 1)

RECURSIVE UrlScan(_, _, _)
UrlScan(analysis, url, k) ==
  IF k > Len(blocking_url_patterns) THEN analysis
  ELSE IF ReSearch(blocking_url_patterns[k], url)
       THEN UrlScan([analysis EXCEPT
                       !.is_blocked = TRUE,
                       !.issues     = Append(@, Issue("Redirected to blocking page", url)),
                       !.confidence = IMax(@, 70)],
                    url, k + 1)
       ELSE UrlScan(analysis, url, k + 1)

RECURSIVE HeaderScan(_, _, _)
HeaderScan(analysis, headers, k) ==
  IF k > Len(suspicious_headers) THEN analysis
  ELSE IF suspicious_headers[k][1] \in SeqRange(headers)
       THEN HeaderScan([analysis EXCEPT
                          !.issues     = Append(@, Issue("header", suspicious_headers[k][2])),
                          !.confidence = IMax(@, suspicious_headers[k][3])],
                       headers, k + 1)
       ELSE HeaderScan(analysis, headers, k + 1)

\* a blocking analysis that goes on to the content, the URL and the headers
\* after a match in the status table
analyze_blocking_no_return(response_data) ==
  LET status_code == response_data.status_code
      a0 == IF status_code \in DOMAIN blocking_status_codes
            THEN [is_blocked |-> TRUE,
                  block_type |-> blocking_status_codes[status_code][2],
                  issues     |-> << Issue("HTTP", blocking_status_codes[status_code][1]) >>,
                  confidence |-> blocking_status_codes[status_code][3]]
            ELSE [is_blocked |-> FALSE, block_type |-> "none",
                  issues |-> <<>>, confidence |-> 0]
      a1 == IF response_data.content # ""
            THEN ContentScan(a0, response_data.content, 1) ELSE a0
  IN  HeaderScan(UrlScan(a1, response_data.url, 1), response_data.headers, 1)

\* validator.py ScrapingValidator._analyze_blocking
analyze_blocking(response_data) ==
  LET analysis0 == [is_blocked |-> FALSE, block_type |-> "none",
                    issues |-> <<>>, confidence |-> 0]
      status_code == response_data.status_code
  IN  IF status_code \in DOMAIN blocking_status_codes
      THEN [is_blocked |-> TRUE,
            block_type |-> blocking_status_codes[status_code][2],
            issues     |-> << Issue("HTTP", blocking_status_codes[status_code][1]) >>,
            confidence |-> blocking_status_codes[status_code][3]]
      ELSE LET a1 == IF response_data.content # ""
                     THEN ContentScan(analysis0, response_data.content, 1)
                     ELSE analysis0
               a2 == UrlScan(a1, response_data.url, 1)
           IN  HeaderScan(a2, response_data.headers, 1)

RECURSIVE SignatureEvents(_, _, _, _, _)
\* the matches of a signature table against a sequence of texts, in the order the
\* loops of _detect_bot_system visit them (signature k outer, text j inner):
\* <<system, confidence, indicator>>
SignatureEvents(table, texts, label, k, j) ==
  IF k > Len(table) THEN <<>>
  ELSE IF j > Len(texts) THEN SignatureEvents(table, texts, label, k + 1, 1)
  ELSE (IF ReSearch(table[k][2], texts[j])
        THEN << <<table[k][1], table[k][3],
                  <<label, IF label = "Header" THEN texts[j] ELSE table[k][2]>> >> >>
        ELSE <<>>)
       \o SignatureEvents(table, texts, label, k, j + 1)

RECURSIVE ApplyEvents(_, _)
\* a match of higher confidence replaces the detected system, which converts the
\* table's system name with BotDetectionSystem(system): a name that is no value of
\* the enum raises ValueError
ApplyEvents(detection, events) ==
  IF events = <<>> \/ detection.raised THEN detection
  ELSE LET e == Head(events)
       IN  IF e[2] > detection.confidence
           THEN IF e[1] \in BotDetectionSystem
                THEN ApplyEvents([detection EXCEPT
                                    !.system = e[1], !.confidence = e[2],
                                    !.indicators = Append(@, e[3])],
                                 Tail(events))
                ELSE [detection EXCEPT !.raised = TRUE]
           ELSE ApplyEvents([detection EXCEPT !.indicators = Append(@, e[3])],
                            Tail(events))

\* validator.py ScrapingValidator._detect_bot_system
detect_bot_system(response_data) ==
  LET detection0 == [system |-> "none", confidence |-> 0, indicators |-> <<>>,
                     raised |-> FALSE]
      hdr == SignatureEvents(load_bot_signatures_headers, response_data.headers,
                             "Header", 1, 1)
      cnt == IF response_data.content # ""
             THEN SignatureEvents(load_bot_signatures_content,
                                  <<response_data.content>>, "Content pattern", 1, 1)
             ELSE <<>>
  IN  ApplyEvents(detection0, hdr \o cnt)

(***************************************************************************)
(* Data quality scoring.  scraped_data is a sequence of items; an item is  *)
(* a function from its keys to value tokens.  None and [] are the empty    *)
(* sequence (the code tests "not scraped_data"); no CSV path is given.     *)
(***************************************************************************)
\* validator.py _validate_data_quality: non_empty_count of a field
non_empty_count(scraped_data, f) ==
  SeqCount(scraped_data,
           LAMBDA item : PyTruthy(ItemGet(item, f))
                         /\ ~PyStrIsPlaceholder(ItemGet(item, f)))

field_completeness(scraped_data) ==
  [f \in SeqRange(ExpectedFields) |->
     [completeness |-> Frac(non_empty_count(scraped_data, f), Len(scraped_data)),
      count        |-> non_empty_count(scraped_data, f)]]

\* values of a field over the items that satisfy P, in item order
FieldValues(scraped_data, f, P(_)) ==
  LET kept == SeqFilter(scraped_data, LAMBDA item : P(ItemGet(item, f)))
  IN  [i \in 1..Len(kept) |-> ItemGet(kept[i], f)]

RECURSIVE SumLen(_)
SumLen(vals) ==
  With({vals}, LAMBDA t :
    IF t = <<>> THEN 0 ELSE PyStrLen(Head(t)) + SumLen(Tail(t)))

\* validator.py ScrapingValidator._analyze_title_quality
analyze_title_quality(scraped_data) ==
  LET titles == FieldValues(scraped_data, "title", PyTruthy)
      total_titles == Len(titles)
  IN  IF scraped_data = <<>> \/ titles = <<>> THEN RZero
      ELSE LET non_placeholder_count ==
                 SeqCount(titles, LAMBDA t : ~TitleMatchesPlaceholder(PyLowerStrip(t))
                                             /\ PyStrLen(t) > 3)
               basic_quality  == Frac(non_placeholder_count, total_titles)
               avg_length     == Frac(SumLen(titles), total_titles)
               length_quality == RMin(ROne, RMax(RZero,
                                   RDiv(RSub(avg_length, <<5, 1>>), <<50, 1>>)))
               unique_titles  == Cardinality({PyLowerStrip(t) : t \in SeqRange(titles)})
               diversity_quality == IF total_titles > 1
                                    THEN Frac(unique_titles, total_titles) ELSE ROne
           IN  RSum(<< RMul(basic_quality, <<5, 10>>),
                       RMul(length_quality, <<3, 10>>),
                       RMul(diversity_quality, <<2, 10>>) >>)

\* isinstance(price, (int, float)) and price >= 0
PyValidPrice(v) == v \in {"f51", "i0"}

\* validator.py ScrapingValidator._analyze_price_quality
analyze_price_quality(scraped_data) ==
  LET prices == FieldValues(scraped_data, "price", LAMBDA v : v \notin {"absent", "None"})
  IN  IF scraped_data = <<>> \/ prices = <<>> THEN RZero
      ELSE Frac(SeqCount(prices, PyValidPrice), Len(prices))

SetMax(S) == CHOOSE x \in S : \A y \in S : y <= x

\* validator.py ScrapingValidator._analyze_data_consistency
analyze_data_consistency(scraped_data) ==
  IF Len(scraped_data) < 2 THEN ROne
  ELSE
    LET image_urls == FieldValues(scraped_data, "image_url", PyTruthy)
        domains    == {UrlNetloc(u) : u \in SeqRange(image_urls)} \ {""}
        url_factor ==
          IF image_urls # <<>> /\ domains # {}
          THEN << Frac(SetMax({SeqCount(image_urls, LAMBDA u : UrlNetloc(u) = d)
                               : d \in domains}),
                       Len(image_urls)) >>
          ELSE <<>>
        prices     == FieldValues(scraped_data, "price", PyTruthy)
        types      == {PyType(v) : v \in SeqRange(prices)}
        price_factor ==
          IF Len(prices) > 1
          THEN << Frac(SetMax({SeqCount(prices, LAMBDA v : PyType(v) = ty)
                               : ty \in types}),
                       Len(prices)) >>
          ELSE <<>>
        consistency_factors == url_factor \o price_factor
    IN  IF consistency_factors = <<>> THEN <<8, 10>>
        ELSE RDiv(RSum(consistency_factors), <<Len(consistency_factors), 1>>)

\* validator.py ScrapingValidator._load_config: the defaults
DefaultValidatorConfig ==
  [min_data_quality_score |-> <<7, 10>>, min_required_fields |-> <<"title">>]

\* validator.py ScrapingValidator._validate_data_quality, lines 407-416: the
\* validation from the overall score
DataQualityVerdict(cfg, stats1, quality_factors, total_score) ==
  [is_valid      |-> RLeq(cfg.min_data_quality_score, total_score),
   quality_score |-> total_score,
   issues        |-> <<>>,
   warnings      |->
     (IF RLt(total_score, <<9, 10>>)
      THEN << Issue("warning", "Data quality score is moderate") >> ELSE <<>>)
     \o (IF RLt(quality_factors["title_completeness"], <<8, 10>>)
         THEN << Issue("warning", "Title completeness is low") >> ELSE <<>>)
     \o (IF RLt(quality_factors["price_completeness"], <<5, 10>>)
         THEN << Issue("warning", "Price completeness is low") >> ELSE <<>>),
   stats         |-> stats1 @@ ("quality_factors" :> quality_factors)]

\* validator.py ScrapingValidator._validate_data_quality, lines 385-405: the
\* weighted score of the quality factors
DataQualityScore(cfg, stats1, quality_factors) ==
  With({ RSum(<< RMul(quality_factors["title_completeness"], <<3, 10>>),
                 RMul(quality_factors["title_quality"],      <<2, 10>>),
                 RMul(quality_factors["price_completeness"], <<2, 10>>),
                 RMul(quality_factors["price_quality"],      <<1, 10>>),
                 RMul(quality_factors["field_diversity"],    <<1, 10>>),
                 RMul(quality_factors["consistency"],        <<1, 10>>) >>) },
       LAMBDA total_score :
         DataQualityVerdict(cfg, stats1, quality_factors, total_score))

\* validator.py ScrapingValidator._validate_data_quality, lines 343-383: from the
\* field completeness fc on
DataQualityFields(cfg, scraped_data, fc) ==
  LET validation0 == [is_valid |-> FALSE, quality_score |-> RZero,
                      issues |-> <<>>, warnings |-> <<>>, stats |-> <<>>]
      stats1  == ("total_items" :> Len(scraped_data)) @@ ("field_completeness" :> fc)
      missing_required ==
        SeqFilter(cfg.min_required_fields,
                  LAMBDA f : IF f \in DOMAIN fc
                             THEN fc[f].completeness = RZero ELSE TRUE)
  IN
  IF missing_required # <<>>
  THEN [validation0 EXCEPT
          !.issues = << <<"Missing required fields", missing_required>> >>,
          !.stats  = stats1]
  ELSE With({ ("title_completeness" :> fc["title"].completeness) @@
              ("title_quality"      :> analyze_title_quality(scraped_data)) @@
              ("price_completeness" :> fc["price"].completeness) @@
              ("price_quality"      :> analyze_price_quality(scraped_data)) @@
              ("field_diversity"    :>
                 Frac(Cardinality({f \in DOMAIN fc : fc[f].completeness # RZero}),
                      Len(ExpectedFields))) @@
              ("consistency"        :> analyze_data_consistency(scraped_data)) },
            LAMBDA quality_factors : DataQualityScore(cfg, stats1, quality_factors))

\* validator.py ScrapingValidator._validate_data_quality
validate_data_quality(cfg, scraped_data) ==
  IF scraped_data = <<>>
  THEN [is_valid |-> FALSE, quality_score |-> RZero,
        issues |-> << Issue("data", "No scraped data provided for validation") >>,
        warnings |-> <<>>, stats |-> <<>>]
  ELSE With({field_completeness(scraped_data)},
            LAMBDA fc : DataQualityFields(cfg, scraped_data, fc))

(***************************************************************************)
(* ValidationResult: [is_successful, is_blocked, bot_detection_system,     *)
(* confidence_score, issues, warnings, metadata]; metadata is a function   *)
(* from the keys present to their values.  bot_detection_system is "None"  *)
(* for Python's None and "none" for BotDetectionSystem.NONE.               *)
(***************************************************************************)
HasKey(d, k) == k \in DOMAIN d

\* validator.py ScrapingValidator._calculate_confidence
calculate_confidence(result, response_data) ==
  LET status_code == response_data.status_code
      http == IF 200 <= status_code /\ status_code < 300 THEN <<9, 10>>
              ELSE IF 400 <= status_code /\ status_code < 500 THEN <<8, 10>>
              ELSE <<6, 10>>
      bot  == IF result.bot_detection_system # "none"
              THEN << IF HasKey(result.metadata, "bot_system_confidence")
                      THEN Frac(result.metadata["bot_system_confidence"], 100)
                      ELSE <<5, 10>> >>
              ELSE <<>>
      data == IF HasKey(result.metadata, "data_stats")
              THEN << IF HasKey(result.metadata["data_stats"], "quality_factors")
                      THEN result.metadata["data_stats"]["quality_factors"]["consistency"]
                      ELSE <<5, 10>> >>
              ELSE <<>>
      issue_penalty == RMax(RZero, RSub(ROne, Frac(Len(result.issues), 10)))
      confidence_factors == <<http>> \o bot \o data \o <<issue_penalty>>
  IN  RDiv(RSum(confidence_factors), <<Len(confidence_factors), 1>>)

\* validator.py ScrapingValidator.validate_scraping_result, lines 168-171: the
\* handler of an exception raised while the result was being filled in
ValidatorExcept(result) ==
  [result EXCEPT !.issues = Append(@, Issue("Validation failed", "exception")),
                 !.confidence_score = RZero]

\* validator.py ScrapingValidator.validate_scraping_result, lines 152-158
ApplyDataValidation(result, data_validation) ==
  [result EXCEPT
     !.is_successful    = data_validation.is_valid,
     !.confidence_score = data_validation.quality_score,
     !.metadata = ("data_stats" :> data_validation.stats) @@ @,
     !.issues   = IF data_validation.is_valid THEN @
                  ELSE @ \o data_validation.issues,
     !.warnings = IF data_validation.is_valid
                  THEN @ \o data_validation.warnings ELSE @]

\* a step 3 that scores the data of a blocked response as well
ValidatorStep3_unguarded(cfg, result, scraped_data) ==
  With({validate_data_quality(cfg, scraped_data)},
       LAMBDA data_validation : ApplyDataValidation(result, data_validation))

\* validator.py ScrapingValidator.validate_scraping_result, lines 149-158
ValidatorStep3(cfg, result, scraped_data) ==
  IF result.is_blocked THEN result
  ELSE With({validate_data_quality(cfg, scraped_data)},
            LAMBDA data_validation : ApplyDataValidation(result, data_validation))

\* validator.py ScrapingValidator.validate_scraping_result, lines 160-161
ValidatorStep4(result, response_data) ==
  [result EXCEPT !.confidence_score = calculate_confidence(result, response_data)]

\* validator.py ScrapingValidator.validate_scraping_result, lines 133-138
ValidatorStep1(result, block_analysis) ==
  IF block_analysis.is_blocked
  THEN [result EXCEPT
          !.is_blocked = TRUE,
          !.issues     = block_analysis.issues,
          !.metadata   = ("block_type" :> block_analysis.block_type)]
  ELSE result

\* validator.py ScrapingValidator.validate_scraping_result, lines 140-147
ValidatorStep2(result, bot_detection) ==
  [result EXCEPT
     !.bot_detection_system = bot_detection.system,
     !.metadata =
       IF bot_detection.system # "none"
       THEN ("bot_system_confidence" :> bot_detection.confidence) @@
            ("bot_indicators" :> bot_detection.indicators) @@ @
       ELSE @]

\* validator.py ScrapingValidator.validate_scraping_result, lines 140-171: from
\* the bot detection on
ValidatorSteps(cfg, response_data, scraped_data, result1, bot_detection) ==
  IF bot_detection.raised THEN ValidatorExcept(result1)
  ELSE With({ValidatorStep3(cfg, ValidatorStep2(result1, bot_detection),
                            scraped_data)},
            LAMBDA result3 : ValidatorStep4(result3, response_data))

\* validator.py ScrapingValidator.validate_scraping_result
validate_scraping_result(cfg, response_data, scraped_data) ==
  With({analyze_blocking(response_data)}, LAMBDA block_analysis :
    With({detect_bot_system(response_data)}, LAMBDA bot_detection :
      ValidatorSteps(cfg, response_data, scraped_data,
        ValidatorStep1([is_successful |-> FALSE, is_blocked |-> FALSE,
                        bot_detection_system |-> "None", confidence_score |-> RZero,
                        issues |-> <<>>, warnings |-> <<>>, metadata |-> <<>>],
                       block_analysis),
        bot_detection)))

(***************************************************************************)
(* Response collectors (response_collector.py).  A response handle is      *)
(* [attrs, raises, hangs, status, url, headers, content]: the attributes   *)
(* hasattr finds, whether attribute access raises (an exception other than *)
(* AttributeError), whether its awaited calls never complete, and what it  *)
(* reports.  None is the handle without attributes.  A collector's outcome *)
(* is [kind, data, failed]: kind "return", "raise" or "hang", failed when  *)
(* reading the handle raised.                                            *)
(***************************************************************************)
NoUrl == "None"                \* url=None

\* validation_config.py: collect_response_headers, collect_response_content as
\* set for the runs modelled here
collect_headers == TRUE
collect_content == TRUE

UrlOr(url, other) == IF url # NoUrl THEN url ELSE other

\* response_collector.py ResponseCollector._create_base_response_data
create_base_response_data(url, status_code) ==
  [url |-> url, status_code |-> status_code, headers |-> <<>>, content |-> ""]

\* response_collector.py ResponseCollector._sanitize_content (the token is shorter
\* than max_content_size)
sanitize_content(content) == IF collect_content THEN content ELSE ""

\* response_collector.py ResponseCollector._sanitize_headers
sanitize_headers(headers) == IF collect_headers THEN headers ELSE <<>>

Returned(data, failed) == [kind |-> "return", data |-> data, failed |-> failed]
Hang == [kind |-> "hang", data |-> create_base_response_data("unknown", 0),
         failed |-> TRUE]

\* response_collector.py ScrapyResponseCollector.collect_response_data
ScrapyCollect(response, url) ==
  IF response.raises
  THEN Returned(create_base_response_data(UrlOr(url, "unknown"), 0), TRUE)
  ELSE IF "status" \notin response.attrs
  THEN Returned(create_base_response_data(UrlOr(url, "unknown"), 200), FALSE)
  ELSE IF url = NoUrl /\ "url" \notin response.attrs
  THEN Returned(create_base_response_data("unknown", 0), TRUE)
  ELSE Returned(
         [url         |-> UrlOr(url, response.url),
          status_code |-> response.status,
          headers     |-> IF "headers" \in response.attrs
                          THEN sanitize_headers(response.headers) ELSE <<>>,
          content     |-> IF {"text", "body"} \cap response.attrs # {}
                          THEN sanitize_content(response.content) ELSE ""],
         FALSE)

\* response_collector.py PlaywrightResponseCollector.collect_response_data
PlaywrightCollect(page, url) ==
  IF page.raises
  THEN Returned(create_base_response_data(UrlOr(url, "unknown"), 0), TRUE)
  ELSE IF "url" \notin page.attrs
  THEN Returned(create_base_response_data(UrlOr(url, "unknown"), 200), FALSE)
  ELSE IF page.hangs /\ "evaluate" \in page.attrs THEN Hang
  ELSE IF ~({"viewport_size", "is_closed"} \subseteq page.attrs)
  THEN Returned(create_base_response_data(UrlOr(url, "unknown"), 0), TRUE)
  ELSE Returned(
         [url         |-> UrlOr(url, page.url),
          status_code |-> IF "evaluate" \in page.attrs THEN page.status ELSE 200,
          headers     |-> IF "evaluate" \in page.attrs
                          THEN sanitize_headers(<<"content-type", "user-agent">>)
                          ELSE <<>>,
          content     |-> IF "content" \in page.attrs
                          THEN sanitize_content(page.content) ELSE ""],
         FALSE)

\* response_collector.py PydollResponseCollector._collect_browser_mode
collect_browser_mode(tab, url) ==
  IF tab.hangs /\ "evaluate" \in tab.attrs THEN Hang
  ELSE Returned(
         [url         |-> UrlOr(url, tab.url),
          status_code |-> 200,
          headers     |-> IF "evaluate" \in tab.attrs
                          THEN sanitize_headers(<<"content-type">>) ELSE <<>>,
          content     |-> IF "evaluate" \in tab.attrs
                          THEN sanitize_content(tab.content) ELSE ""],
         FALSE)

\* response_collector.py PydollResponseCollector._collect_fallback_mode
collect_fallback_mode(response, url) ==
  IF url = NoUrl /\ "url" \notin response.attrs
  THEN Returned(create_base_response_data("unknown", 0), TRUE)
  ELSE Returned(
         [url         |-> UrlOr(url, response.url),
          status_code |-> response.status,
          headers     |-> sanitize_headers(response.headers),
          content     |-> IF "text" \in response.attrs
                          THEN sanitize_content(response.content) ELSE ""],
         FALSE)

\* response_collector.py PydollResponseCollector.collect_response_data
PydollCollect(source, url) ==
  IF source.raises
  THEN Returned(create_base_response_data(UrlOr(url, "unknown"), 0), TRUE)
  ELSE IF {"url", "go_to"} \subseteq source.attrs
  THEN collect_browser_mode(source, url)
  ELSE IF {"status_code", "headers"} \subseteq source.attrs
  THEN collect_fallback_mode(source, url)
  ELSE Returned(create_base_response_data(UrlOr(url, "unknown"), 200), FALSE)

SupportedScraperTypes == {"scrapy", "playwright", "pydoll"}

\* response_collector.py ResponseCollectorFactory.create_collector followed by the
\* collector's collect_response_data; an unsupported type raises ValueError
collect_response_data(scraper_type, source, url) ==
  CASE scraper_type = "scrapy"     -> ScrapyCollect(source, url)
    [] scraper_type = "playwright" -> PlaywrightCollect(source, url)
    [] scraper_type = "pydoll"     -> PydollCollect(source, url)
    [] OTHER -> [kind |-> "raise", data |-> create_base_response_data("unknown", 0),
                 failed |-> TRUE]

(***************************************************************************)
(* ValidationCache (validation_manager.py).  _cache is the dict as the     *)
(* sequence of its entries [key, timestamp, result] in insertion order.    *)
(* An optional value is <<>> (None) or <<v>>.                              *)
(***************************************************************************)
Min(a, b) == IF a < b THEN a ELSE b

\* json.dumps(..., sort_keys=True) sorts an item's keys: keys of mixed types (an
\* int key is the token "#1") raise TypeError
JsonSortable(item) ==
  ~(\E k1, k2 \in DOMAIN item : k1 = "#1" /\ k2 # "#1")

\* validation_manager.py ValidationCache._generate_cache_key: [raised, key]
generate_cache_key(task) ==
  LET sample_data == SubSeq(task.scraped_data, 1, Min(5, Len(task.scraped_data)))
  IN  IF \E i \in 1..Len(sample_data) : ~JsonSortable(sample_data[i])
      THEN [raised |-> TRUE, key |-> <<>>]
      ELSE [raised |-> FALSE,
            key    |-> <<task.scraper_type, UrlOr(task.url, "unknown"),
                         Len(task.scraped_data), sample_data>>]

CacheKeys(c) == {c[i].key : i \in 1..Len(c)}
CacheIndex(c, key) == CHOOSE i \in 1..Len(c) : c[i].key = key

\* a lookup that takes the oldest entry whatever its key
ValidationCache_get_any(c, key, t, ttl) ==
  IF c = <<>> THEN [cache |-> c, result |-> <<>>]
  ELSE [cache |-> c, result |-> <<c[1].result>>]

\* validation_manager.py ValidationCache.get: [cache, result]
ValidationCache_get(c, key, t, ttl) ==
  IF key \notin CacheKeys(c) THEN [cache |-> c, result |-> <<>>]
  ELSE LET e == c[CacheIndex(c, key)]
       IN  IF t - e.timestamp > ttl
           THEN [cache  |-> SeqFilter(c, LAMBDA x : x.key # key), result |-> <<>>]
           ELSE [cache |-> c, result |-> <<e.result>>]

\* validation_manager.py ValidationCache._cleanup_expired
ValidationCache_cleanup_expired(c, t, ttl) ==
  SeqFilter(c, LAMBDA x : ~(t - x.timestamp > ttl))

\* sorted(keys, key=timestamp)[:n]: the keys of the n oldest entries (the sort is
\* stable: ties keep insertion order)
OldestKeys(c, n) ==
  LET Before(i, j) == c[i].timestamp < c[j].timestamp
                      \/ (c[i].timestamp = c[j].timestamp /\ i < j)
      Rank(i) == Cardinality({j \in 1..Len(c) : Before(j, i)})
  IN  {c[i].key : i \in {j \in 1..Len(c) : Rank(j) < n}}

\* a store that never replaces an entry
ValidationCache_set_append(c, key, result, t, ttl, max_size) ==
  Append(c, [key |-> key, timestamp |-> t, result |-> result])

\* validation_manager.py ValidationCache.set
ValidationCache_set(c, key, result, t, ttl, max_size) ==
  LET c1 == IF Len(c) >= max_size THEN ValidationCache_cleanup_expired(c, t, ttl) ELSE c
      c2 == IF Len(c) >= max_size /\ Len(c1) >= max_size
            THEN LET oldest == OldestKeys(c1, max_size \div 4)
                 IN  SeqFilter(c1, LAMBDA x : x.key \notin oldest)
            ELSE c1
      e  == [key |-> key, timestamp |-> t, result |-> result]
  IN  IF key \in CacheKeys(c2)
      THEN [c2 EXCEPT ![CacheIndex(c2, key)] = e]
      ELSE Append(c2, e)

\* validation_manager.py ValidationCache.clear
ValidationCache_clear(c) == <<>>

(***************************************************************************)
(* ValidationManager (validation_manager.py).                              *)
(*                                                                         *)
(* Calls of validate_scraping_result are coroutines on one event loop: a   *)
(* call runs without interruption from one await to the next.  The awaits  *)
(* are the collection of the response data (under asyncio.wait_for) and    *)
(* the future of the classifier submitted to the thread pool.              *)
(***************************************************************************)
PriorCalls == 99                \* calls made before the ones followed, where the
                               \*   window of validation times matters
MaxCalls == 2                  \* calls of validate_scraping_result followed
MaxTime  == 3                  \* the clock runs from 0 to MaxTime
validation_timeout == 1        \* config.validation_timeout, in clock ticks
cache_ttl == 2                 \* config.cache_ttl, in clock ticks
cache_max_size == 1000         \* ValidationCache(max_size=1000)
max_workers == 2               \* ThreadPoolExecutor(max_workers=2)
enable_caching == TRUE         \* config.enable_caching (the default)

Calls == 1..MaxCalls

\* response handles
Handle(attrs, raises, hangs, status, url, headers, content) ==
  [attrs |-> attrs, raises |-> raises, hangs |-> hangs, status |-> status,
   url |-> url, headers |-> headers, content |-> content]

ScrapyAttrs == {"status", "url", "headers", "text"}
NoneHandle    == Handle({}, FALSE, FALSE, 0, "unknown", <<>>, "")
RaisingHandle == Handle({}, TRUE, FALSE, 0, "unknown", <<>>, "")
OkResponse    == Handle(ScrapyAttrs, FALSE, FALSE, 200, "https://shop.example/books",
                        <<"content-type">>, "plain")
DeniedResponse == Handle(ScrapyAttrs, FALSE, FALSE, 403, "https://shop.example/books",
                         <<"content-type">>, "plain")
HumanResponse == Handle(ScrapyAttrs, FALSE, FALSE, 200, "https://shop.example/books",
                        <<"content-type">>, "human")
HangingPage   == Handle({"url", "evaluate", "content", "viewport_size", "is_closed"},
                        FALSE, TRUE, 200, "https://shop.example/books", <<>>, "plain")
RequestsResponse == Handle({"status_code", "headers", "url", "text"}, FALSE, FALSE,
                           200, "https://shop.example/books", <<"content-type">>,
                           "plain")

\* record lists
GoodRecords ==
  << [title |-> "attic",  price |-> "f51", image_url |-> "img_a"],
     [title |-> "velvet", price |-> "f51", image_url |-> "img_a"] >>
SparseRecords == << [title |-> "empty", price |-> "sprice"] >>
UnsortableRecords == << ("#1" :> "attic") @@ [title |-> "attic"] >>

\* validation_manager.py ValidationTask
ValidationTask(scraper_type, response_source, scraped_data, url, task_id) ==
  [scraper_type |-> scraper_type, response_source |-> response_source,
   scraped_data |-> scraped_data, url |-> url, task_id |-> task_id]

\* the arguments of the calls followed: <<scraper_type, response_source,
\* scraped_data, url>>
TaskInputs ==
  { <<"scrapy", OkResponse, GoodRecords, NoUrl>>,
    <<"scrapy", DeniedResponse, GoodRecords, NoUrl>>,
    <<"scrapy", HumanResponse, GoodRecords, NoUrl>>,
    <<"scrapy", RaisingHandle, GoodRecords, NoUrl>>,
    <<"scrapy", NoneHandle, SparseRecords, NoUrl>>,
    <<"scrapy", OkResponse, UnsortableRecords, NoUrl>>,
    <<"playwright", HangingPage, GoodRecords, NoUrl>>,
    <<"pydoll", RequestsResponse, <<>>, "https://shop.example/books">>,
    <<"ftp", NoneHandle, GoodRecords, NoUrl>> }

NoTask == ValidationTask("", NoneHandle, <<>>, NoUrl, 0)
NoResponseData == create_base_response_data("", 0)

\* validation_manager.py ValidationManager._create_fallback_response_data
create_fallback_response_data(url) ==
  [url |-> UrlOr(url, "unknown"), status_code |-> 0, headers |-> <<>>,
   content |-> ""]

\* validation_manager.py ValidationManager._create_error_result
create_error_result(error_message, url, t) ==
  [is_successful |-> FALSE, is_blocked |-> FALSE,
   bot_detection_system |-> "none", confidence_score |-> RZero,
   issues |-> <<Issue("Validation error", error_message)>>, warnings |-> <<>>,
   metadata |-> [error |-> TRUE, url |-> url, timestamp |-> t]]

\* validation_manager.py ValidationManager._perform_validation, lines 304-308
add_task_metadata(result, tsk, t) ==
  [result EXCEPT !.metadata =
     [task_id |-> tsk.task_id, scraper_type |-> tsk.scraper_type,
      validation_timestamp |-> t] @@ @]

\* statistics that keep every validation time
update_stats_untrimmed(st, stat_type, validation_time) ==
  [st EXCEPT !.total_validations = @ + 1,
             ![stat_type] = @ + 1,
             !.validation_times = Append(@, validation_time)]

\* validation_manager.py ValidationManager._update_stats
update_stats(st, stat_type, validation_time) ==
  LET times == Append(st.validation_times, validation_time)
  IN  [st EXCEPT !.total_validations = @ + 1,
                 ![stat_type] = @ + 1,
                 !.validation_times =
                    IF Len(times) > 100
                    THEN SubSeq(times, Len(times) - 99, Len(times)) ELSE times]

\* a call whose body lets the exception go to the caller
outer_except_propagates(error_message, url, t) ==
  [kind |-> "raise", result |-> create_error_result(error_message, url, t)]

\* validation_manager.py ValidationManager.validate_scraping_result, lines
\* 257-262: what the call does with an exception of its body
outer_except(error_message, url, t) ==
  [kind |-> "return", result |-> create_error_result(error_message, url, t)]

VARIABLES
  now,                \* time.time()
  executor_shutdown,  \* the executor refuses new work
  close_pc,           \* close(): "idle", "waiting" (in executor.shutdown), "done"
  cache,              \* ValidationCache._cache
  stats,              \* ValidationManager._stats
  queue,              \* work items of the executor not yet taken by a thread
  pc,                 \* per call: "idle", "normalize", "classify", "returned", "raised"
  task,               \* per call: its ValidationTask
  start_time,         \* per call: start_time
  response_data,      \* per call: the response data it validates
  norm_failed,        \* per call: the response data are not the handle's
  worker,             \* per call: its work item, "none", "queued", "running",
                      \*   "finished" or "stalled" (never completes)
  future,             \* per call: the classifier's result, <<>> before it is set
  result,             \* per call: what the call returned, <<>> before it returns
  trace               \* per call: the steps it has taken, in order

mvars == <<now, executor_shutdown, close_pc, cache, stats, queue, pc, task,
           start_time, response_data, norm_failed, worker, future, result, trace>>

VARIABLES
  acfg,               \* the arguments of AdvancedCache(...)
  maintenance_task,   \* whether __init__ found a running loop and started the worker
  acache,                 \* [memory_cache, access_order, persistent]
  clock,              \* time.time()
  last_op,            \* the last call of the cache and what it returned
  last_set            \* per key: <<[data, ttl, time]>> of the last set of the key
                      \*   since the cache was cleared, <<>> when there is none

avars == <<acfg, maintenance_task, acache, clock, last_op, last_set>>

VARIABLES
  context,            \* what a producer of results is given: [response_data,
                      \*   scraped_data, error]
  produced            \* the result produced last and by whom, NoOp before

pvars == <<context, produced>>

VARIABLES
  key_tasks,          \* the two tasks whose cache keys are compared
  key_result          \* the keys computed last and by which cache, NoOp before

kvars == <<key_tasks, key_result>>

VARIABLES
  handler,            \* the ValidationErrorHandler: [errors, error_counts, arrivals]
  recovery            \* the handle_error call in progress, NoOp when there is none

hvars == <<handler, recovery>>

VARIABLES
  retry               \* a RetryWithBackoffStrategy.attempt_recovery call

rvars == <<retry>>

VARIABLES
  fn_args,            \* the arguments of the function that is called
  fn_result           \* the function called last and what it returned, NoOp before

fvars == <<fn_args, fn_result>>

vars == <<mvars, avars, pvars, kvars, hvars, rvars, fvars>>

\* what the actions of one component leave alone
not_mvars == <<avars, pvars, kvars, hvars, rvars, fvars>>
not_avars == <<mvars, pvars, kvars, hvars, rvars, fvars>>
not_pvars == <<mvars, avars, kvars, hvars, rvars, fvars>>
not_kvars == <<mvars, avars, pvars, hvars, rvars, fvars>>
not_hvars == <<mvars, avars, pvars, kvars, rvars, fvars>>
not_rvars == <<mvars, avars, pvars, kvars, hvars, fvars>>
not_fvars == <<mvars, avars, pvars, kvars, hvars, rvars>>
not_fvars_avars == <<mvars, pvars, kvars, hvars, rvars>>
not_fvars_hvars == <<mvars, avars, pvars, kvars, rvars>>

\* _stats after n calls that each ended in the except branch at once (calls
\* whose records make the cache key raise): ValidationManager.__init__ has n = 0
StatsAfter(n) ==
  [total_validations |-> n, successful_validations |-> 0,
   blocked_validations |-> 0, cached_validations |-> 0,
   error_validations |-> n, validation_times |-> [i \in 1..n |-> 0]]

ManagerStart(st) ==
  /\ now = 0
  /\ executor_shutdown = FALSE
  /\ close_pc = "idle"
  /\ cache = <<>>
  /\ stats = st
  /\ queue = <<>>
  /\ pc = [c \in Calls |-> "idle"]
  /\ task = [c \in Calls |-> NoTask]
  /\ start_time = [c \in Calls |-> 0]
  /\ response_data = [c \in Calls |-> NoResponseData]
  /\ norm_failed = [c \in Calls |-> FALSE]
  /\ worker = [c \in Calls |-> "none"]
  /\ future = [c \in Calls |-> <<>>]
  /\ result = [c \in Calls |-> <<>>]
  /\ trace = [c \in Calls |-> <<>>]

ManagerInit == ManagerStart(StatsAfter(0))

\* the call ends: return of a ValidationResult, or an exception to the caller
Finish(c, outcome, tr) ==
  /\ pc' = [pc EXCEPT ![c] = IF outcome.kind = "return" THEN "returned" ELSE "raised"]
  /\ result' = [result EXCEPT ![c] = IF outcome.kind = "return"
                                     THEN <<outcome.result>> ELSE <<>>]
  /\ trace' = [trace EXCEPT ![c] = tr]

\* validation_manager.py validate_scraping_result lines 241-255 from the call of
\* _perform_validation on, up to its await: run_in_executor raises RuntimeError
\* once the executor is shut down, and the error result goes the normal way
PerformValidation(c, tsk, started, rd, failed, cache1, tr) ==
  /\ response_data' = [response_data EXCEPT ![c] = rd]
  /\ norm_failed' = [norm_failed EXCEPT ![c] = failed]
  /\ IF executor_shutdown
     THEN LET r == create_error_result("cannot schedule new futures after shutdown",
                                       rd.url, now)
          IN  /\ cache' = IF enable_caching
                          THEN ValidationCache_set(cache1, generate_cache_key(tsk).key,
                                                   r, now, cache_ttl, cache_max_size)
                          ELSE cache1
              /\ stats' = update_stats(stats,
                                       IF r.is_successful THEN "successful_validations"
                                       ELSE "blocked_validations", now - started)
              /\ Finish(c, [kind |-> "return", result |-> r],
                        tr \o <<"classify_refused", "cache_set">>)
              /\ UNCHANGED <<queue, worker>>
     ELSE /\ queue' = Append(queue, c)
          /\ worker' = [worker EXCEPT ![c] = "queued"]
          /\ pc' = [pc EXCEPT ![c] = "classify"]
          /\ trace' = [trace EXCEPT ![c] = tr \o <<"classify">>]
          /\ cache' = cache1
          /\ UNCHANGED <<stats, result>>

\* validation_manager.py _collect_response_data up to its await: an unsupported
\* scraper type raises in create_collector and gives the fallback response data
StartCollect(c, tsk, cache1, tr) ==
  IF tsk.scraper_type \notin SupportedScraperTypes
  THEN PerformValidation(c, tsk, now, create_fallback_response_data(tsk.url), TRUE,
                         cache1, tr \o <<"normalize">>)
  ELSE /\ pc' = [pc EXCEPT ![c] = "normalize"]
       /\ trace' = [trace EXCEPT ![c] = tr \o <<"normalize">>]
       /\ cache' = cache1
       /\ UNCHANGED <<stats, queue, response_data, norm_failed, worker, result>>

\* validation_manager.py validate_scraping_result, lines 216-239: from the call to
\* the first await
Begin(c, input) ==
  /\ pc[c] = "idle"
  /\ (IF c = 1 THEN TRUE ELSE pc[c - 1] # "idle")   \* calls are numbered as they start
  /\ now + validation_timeout <= MaxTime
  /\ LET tsk == ValidationTask(input[1], input[2], input[3], input[4], c)
         k   == generate_cache_key(tsk)
     IN  /\ task' = [task EXCEPT ![c] = tsk]
         /\ start_time' = [start_time EXCEPT ![c] = now]
         /\ IF ~enable_caching THEN StartCollect(c, tsk, cache, <<>>)
            ELSE IF k.raised
            THEN /\ stats' = update_stats(stats, "error_validations", 0)
                 /\ Finish(c, outer_except("unorderable keys", UrlOr(tsk.url, "unknown"),
                                           now),
                           <<"cache_get">>)
                 /\ UNCHANGED <<cache, queue, response_data, norm_failed, worker>>
            ELSE LET g == ValidationCache_get(cache, k.key, now, cache_ttl)
                 IN  IF g.result # <<>>
                     THEN /\ stats' = update_stats(stats, "cached_validations", 0)
                          /\ cache' = g.cache
                          /\ Finish(c, [kind |-> "return", result |-> g.result[1]],
                                    <<"cache_get", "cache_hit">>)
                          /\ UNCHANGED <<queue, response_data, norm_failed, worker>>
                     ELSE StartCollect(c, tsk, g.cache, <<"cache_get">>)
  /\ UNCHANGED <<now, executor_shutdown, close_pc, future>>
  /\ UNCHANGED not_mvars

\* validation_manager.py _collect_response_data, lines 274-282: the collector
\* returned within the timeout
NormalizeDone(c) ==
  /\ pc[c] = "normalize"
  /\ LET collected == collect_response_data(task[c].scraper_type,
                                            task[c].response_source, task[c].url)
     IN  /\ collected.kind = "return"
         /\ PerformValidation(c, task[c], start_time[c], collected.data,
                              collected.failed, cache, trace[c])
  /\ UNCHANGED <<now, executor_shutdown, close_pc, task, start_time, future>>
  /\ UNCHANGED not_mvars

\* validation_manager.py _collect_response_data, lines 284-286: asyncio.wait_for
\* gave up on a collector that had not returned
NormalizeTimeout(c) ==
  /\ pc[c] = "normalize"
  /\ collect_response_data(task[c].scraper_type, task[c].response_source,
                           task[c].url).kind = "hang"
  /\ now - start_time[c] >= validation_timeout
  /\ PerformValidation(c, task[c], start_time[c],
                       create_fallback_response_data(task[c].url), TRUE, cache,
                       trace[c] \o <<"timeout">>)
  /\ UNCHANGED <<now, executor_shutdown, close_pc, task, start_time, future>>
  /\ UNCHANGED not_mvars

Busy == {c \in Calls : worker[c] \in {"running", "stalled"}}

\* concurrent.futures: a free thread of the pool takes the oldest work item
WorkerStart(c) ==
  /\ queue # <<>> /\ Head(queue) = c
  /\ Cardinality(Busy) < max_workers
  /\ queue' = Tail(queue)
  /\ worker' = [worker EXCEPT ![c] = "running"]
  /\ UNCHANGED <<now, executor_shutdown, close_pc, cache, stats, pc, task,
                 start_time, response_data, norm_failed, future, result, trace>>
  /\ UNCHANGED not_mvars

\* the thread ran ScrapingValidator.validate_scraping_result to its end (the
\* manager hands the validator its ValidationConfig as config_path: the validator
\* falls back to its defaults)
WorkerFinish(c) ==
  /\ worker[c] = "running"
  /\ worker' = [worker EXCEPT ![c] = "finished"]
  /\ future' = [future EXCEPT ![c] =
                  <<validate_scraping_result(DefaultValidatorConfig, response_data[c],
                                             task[c].scraped_data)>>]
  /\ UNCHANGED <<now, executor_shutdown, close_pc, cache, stats, queue, pc, task,
                 start_time, response_data, norm_failed, result, trace>>
  /\ UNCHANGED not_mvars

\* the validator does not come back (nothing bounds its run)
WorkerStall(c) ==
  /\ worker[c] = "running"
  /\ worker' = [worker EXCEPT ![c] = "stalled"]
  /\ UNCHANGED <<now, executor_shutdown, close_pc, cache, stats, queue, pc, task,
                 start_time, response_data, norm_failed, future, result, trace>>
  /\ UNCHANGED not_mvars

\* validation_manager.py _perform_validation lines 304-310 and
\* validate_scraping_result lines 244-255: the call resumes with the result
Resume(c) ==
  /\ pc[c] = "classify"
  /\ worker[c] = "finished"
  /\ LET r == add_task_metadata(future[c][1], task[c], now)
     IN  /\ cache' = IF enable_caching
                     THEN ValidationCache_set(cache, generate_cache_key(task[c]).key,
                                              r, now, cache_ttl, cache_max_size)
                     ELSE cache
         /\ stats' = update_stats(stats,
                                  IF r.is_successful THEN "successful_validations"
                                  ELSE "blocked_validations", now - start_time[c])
         /\ Finish(c, [kind |-> "return", result |-> r], trace[c] \o <<"cache_set">>)
  /\ worker' = [worker EXCEPT ![c] = "none"]
  /\ UNCHANGED <<now, executor_shutdown, close_pc, queue, task, start_time,
                 response_data, norm_failed, future>>
  /\ UNCHANGED not_mvars

\* validation_manager.py close, line 428: executor.shutdown(wait=True) begins
CloseBegin ==
  /\ close_pc = "idle"
  /\ executor_shutdown' = TRUE
  /\ close_pc' = "waiting"
  /\ UNCHANGED <<now, cache, stats, queue, pc, task, start_time, response_data,
                 norm_failed, worker, future, result, trace>>
  /\ UNCHANGED not_mvars

\* validation_manager.py close, lines 428-433: the pool has run all its work
\* items, shutdown returns and the cache is cleared
CloseEnd ==
  /\ close_pc = "waiting"
  /\ queue = <<>> /\ Busy = {}
  /\ cache' = ValidationCache_clear(cache)
  /\ close_pc' = "done"
  /\ UNCHANGED <<now, executor_shutdown, stats, queue, pc, task, start_time,
                 response_data, norm_failed, worker, future, result, trace>>
  /\ UNCHANGED not_mvars

\* the clock advances
Tick ==
  /\ now < MaxTime
  /\ now' = now + 1
  /\ UNCHANGED <<executor_shutdown, close_pc, cache, stats, queue, pc, task,
                 start_time, response_data, norm_failed, worker, future, result,
                 trace>>
  /\ UNCHANGED not_mvars


(***************************************************************************)
(* AdvancedCache (validation_performance.py).                              *)
(*                                                                         *)
(* _memory_cache is the dict as the sequence of its entries in insertion   *)
(* order, _access_order the deque of keys, persistent the .cache files of  *)
(* persistent_dir by key.  A cache is [memory_cache, access_order,         *)
(* persistent]; cfg is [strategy, max_entries, max_memory_size,            *)
(* default_ttl].  get and set have no await that suspends them: each runs  *)
(* to its end in one step.  The hit and miss counters and an entry's       *)
(* last_access, which the cache writes and never reads, are not followed.  *)
(***************************************************************************)
CacheStrategy == {"memory_only", "persistent", "hybrid"}

MaxEntries == 2                \* max_entries ranges over 1..MaxEntries
MaxClock == 2                  \* the cache's clock runs from 0 to MaxClock
MaxAccess == 3                 \* hits of one entry that are followed
ac_default_ttl == 1            \* default_ttl, in clock ticks
ac_max_memory_size == 4        \* max_memory_size, in size units
compression_threshold == 2     \* compression_threshold, in size units
hot_threshold == 3             \* _persist_hot_entries: hot_threshold = 3

\* the values stored: a verdict and an empty (falsy) value; "unpicklable" stands
\* for a value pickle cannot serialize
CacheValues == {"verdict", "empty"}
ValueTruthy(data) == data # "empty"
Picklable(data) == data # "unpicklable"
PickleSize(data) == IF data = "empty" THEN 1 ELSE 3
CompressedSize(data) == 2

\* validation_performance.py AdvancedCache._serialize_entry: [compressed, payload,
\* size]
serialize_entry(data) ==
  IF PickleSize(data) > compression_threshold
  THEN [compressed |-> TRUE, payload |-> data, size |-> CompressedSize(data)]
  ELSE [compressed |-> FALSE, payload |-> data, size |-> PickleSize(data)]

\* validation_performance.py AdvancedCache._deserialize_entry
deserialize_entry(bytes) == bytes.payload

\* validation_performance.py AdvancedCache._generate_data_signature; fields is
\* list(scraped_data[0].keys()), the keys of the first record in the order the
\* dict holds them (json.dumps sorts the keys of dicts, not this list)
generate_data_signature(scraped_data, fields) ==
  IF scraped_data = <<>> THEN <<"no_data">>
  ELSE <<Len(scraped_data),
         SubSeq(scraped_data, 1, Min(3, Len(scraped_data))),
         fields>>

\* validation_performance.py AdvancedCache._generate_cache_key
AdvancedCache_generate_cache_key(task_data) ==
  <<task_data.scraper_type, task_data.url,
    generate_data_signature(task_data.scraped_data, task_data.fields)>>

MemoryKeys(memory_cache) == {memory_cache[i].key : i \in 1..Len(memory_cache)}
MemoryEntry(memory_cache, key) ==
  memory_cache[CHOOSE i \in 1..Len(memory_cache) : memory_cache[i].key = key]

\* del self._memory_cache[key]
MemoryDel(memory_cache, key) == SeqFilter(memory_cache, LAMBDA e : e.key # key)

\* self._memory_cache[key] = entry
MemoryPut(memory_cache, entry) ==
  IF entry.key \in MemoryKeys(memory_cache)
  THEN [i \in 1..Len(memory_cache) |->
          IF memory_cache[i].key = entry.key THEN entry ELSE memory_cache[i]]
  ELSE Append(memory_cache, entry)

\* validation_performance.py CacheEntry.is_expired
is_expired(entry, default_ttl, t) ==
  LET ttl == IF entry.ttl_override # <<>> THEN entry.ttl_override[1] ELSE default_ttl
  IN  t - entry.timestamp > ttl

\* a removal that leaves the access order as it is
remove_from_access_order_noop(access_order, cache_key) == access_order

\* validation_performance.py AdvancedCache._remove_from_access_order
remove_from_access_order(access_order, cache_key) ==
  LET idx == {i \in 1..Len(access_order) : access_order[i] = cache_key}
  IN  IF idx = {} THEN access_order
      ELSE LET first == CHOOSE i \in idx : \A j \in idx : i <= j
           IN  SubSeq(access_order, 1, first - 1)
               \o SubSeq(access_order, first + 1, Len(access_order))

\* validation_performance.py AdvancedCache._update_access_order
update_access_order(access_order, cache_key) ==
  Append(remove_from_access_order(access_order, cache_key), cache_key)

\* an eviction that removes nothing
evict_nothing(ac, count) == ac

\* validation_performance.py AdvancedCache._evict_lru_entries
RECURSIVE evict_lru_entries(_, _)
evict_lru_entries(ac, count) ==
  IF count = 0 \/ ac.access_order = <<>> THEN ac
  ELSE LET lru_key == Head(ac.access_order)
       IN  IF lru_key \in MemoryKeys(ac.memory_cache)
           THEN evict_lru_entries(
                  [ac EXCEPT !.access_order = Tail(@),
                             !.memory_cache = MemoryDel(@, lru_key)], count - 1)
           ELSE evict_lru_entries([ac EXCEPT !.access_order = Tail(@)], count)

\* validation_performance.py AdvancedCache._save_to_persistent
save_to_persistent(persistent, cache_key, data, timestamp) ==
  (cache_key :> [bytes |-> serialize_entry(data), mtime |-> timestamp]) @@ persistent

\* validation_performance.py AdvancedCache._load_from_persistent: [persistent,
\* data], data <<>> for None
load_from_persistent(persistent, cfg, cache_key, t) ==
  IF cache_key \notin DOMAIN persistent
  THEN [persistent |-> persistent, data |-> <<>>]
  ELSE IF t - persistent[cache_key].mtime > cfg.default_ttl
  THEN [persistent |-> [k \in DOMAIN persistent \ {cache_key} |-> persistent[k]],
        data |-> <<>>]
  ELSE [persistent |-> persistent,
        data |-> <<deserialize_entry(persistent[cache_key].bytes)>>]

\* validation_performance.py AdvancedCache.set
AdvancedCache_set(ac, cfg, task_data, data, ttl_override, promote_to_memory, t) ==
  LET cache_key == AdvancedCache_generate_cache_key(task_data)
      entry == [key |-> cache_key, data |-> data, timestamp |-> t,
                access_count |-> 0,
                size_bytes |-> serialize_entry(data).size,
                ttl_override |-> ttl_override]
      ac1 == IF cfg.strategy \in {"memory_only", "hybrid"} \/ promote_to_memory
             THEN LET ev == IF Len(ac.memory_cache) >= cfg.max_entries
                            THEN evict_lru_entries(ac, 1) ELSE ac
                  IN  [ev EXCEPT !.memory_cache = MemoryPut(@, entry),
                                 !.access_order = update_access_order(@, cache_key)]
             ELSE ac
  IN  IF ~Picklable(data) THEN ac
      ELSE IF cfg.strategy \in {"persistent", "hybrid"}
      THEN [ac1 EXCEPT !.persistent = save_to_persistent(@, cache_key, data, t)]
      ELSE ac1

\* validation_performance.py AdvancedCache.get: [ac, result], result <<>> for None
AdvancedCache_get(ac, cfg, task_data, t) ==
  LET cache_key == AdvancedCache_generate_cache_key(task_data)
  IN  IF cache_key \in MemoryKeys(ac.memory_cache)
      THEN LET entry == MemoryEntry(ac.memory_cache, cache_key)
           IN  IF is_expired(entry, cfg.default_ttl, t)
               THEN [ac |-> [ac EXCEPT
                               !.memory_cache = MemoryDel(@, cache_key),
                               !.access_order = remove_from_access_order(@, cache_key)],
                     result |-> <<>>]
               ELSE [ac |-> [ac EXCEPT
                               !.memory_cache =
                                  MemoryPut(@, [entry EXCEPT !.access_count = @ + 1]),
                               !.access_order = update_access_order(@, cache_key)],
                     result |-> <<entry.data>>]
      ELSE IF cfg.strategy = "hybrid"
      THEN LET loaded == load_from_persistent(ac.persistent, cfg, cache_key, t)
               ac1 == [ac EXCEPT !.persistent = loaded.persistent]
           IN  IF loaded.data # <<>> /\ ValueTruthy(loaded.data[1])
               THEN [ac |-> AdvancedCache_set(ac1, cfg, task_data, loaded.data[1],
                                              <<>>, TRUE, t),
                     result |-> loaded.data]
               ELSE [ac |-> ac1, result |-> <<>>]
      ELSE [ac |-> ac, result |-> <<>>]

\* validation_performance.py AdvancedCache._cleanup_expired
AdvancedCache_cleanup_expired(ac, cfg, t) ==
  LET expired_keys == {e.key : e \in {x \in SeqRange(ac.memory_cache) :
                                        is_expired(x, cfg.default_ttl, t)}}
  IN  [ac EXCEPT !.memory_cache = SeqFilter(@, LAMBDA e : e.key \notin expired_keys),
                 !.access_order = SeqFilter(@, LAMBDA k : k \notin expired_keys)]

RECURSIVE SumSizes(_)
SumSizes(entries) ==
  IF entries = <<>> THEN 0 ELSE Head(entries).size_bytes + SumSizes(Tail(entries))

\* sorted(items, key=access_count / max(size_bytes, 1)): stable, ascending
SortByUtility(memory_cache) ==
  LET n == Len(memory_cache)
      Less(i, j) ==
        LET a == memory_cache[i]
            b == memory_cache[j]
            ua == a.access_count * IMax(b.size_bytes, 1)
            ub == b.access_count * IMax(a.size_bytes, 1)
        IN  ua < ub \/ (ua = ub /\ i < j)
      Rank(i) == Cardinality({j \in 1..n : Less(j, i)})
  IN  [r \in 1..n |-> memory_cache[CHOOSE i \in 1..n : Rank(i) = r - 1]]

\* the loop of _optimize_memory_usage: entries are deleted in order until the
\* freed memory reaches memory_to_free = current - 0.8 * max (in tenths)
RECURSIVE FreeMemory(_, _, _, _)
FreeMemory(ac, entries, freed_memory, memory_to_free10) ==
  IF entries = <<>> THEN ac
  ELSE LET entry == Head(entries)
           ac1 == [ac EXCEPT
                     !.memory_cache = MemoryDel(@, entry.key),
                     !.access_order = remove_from_access_order(@, entry.key)]
           freed == freed_memory + entry.size_bytes
       IN  IF 10 * freed >= memory_to_free10 THEN ac1
           ELSE FreeMemory(ac1, Tail(entries), freed, memory_to_free10)

\* _optimize_memory_usage without the sort: entries go in the table's order
optimize_memory_usage_unsorted(ac, cfg) ==
  LET current_memory == SumSizes(ac.memory_cache)
  IN  IF current_memory > cfg.max_memory_size
      THEN FreeMemory(ac, ac.memory_cache, 0,
                      10 * current_memory - 8 * cfg.max_memory_size)
      ELSE ac

\* validation_performance.py AdvancedCache._optimize_memory_usage
optimize_memory_usage(ac, cfg) ==
  LET current_memory == SumSizes(ac.memory_cache)
  IN  IF current_memory > cfg.max_memory_size
      THEN FreeMemory(ac, SortByUtility(ac.memory_cache), 0,
                      10 * current_memory - 8 * cfg.max_memory_size)
      ELSE ac

\* the saves of _persist_hot_entries, entry after entry
RECURSIVE SaveEntries(_, _)
SaveEntries(persistent, entries) ==
  IF entries = <<>> THEN persistent
  ELSE SaveEntries(save_to_persistent(persistent, Head(entries).key,
                                      Head(entries).data, Head(entries).timestamp),
                   Tail(entries))

\* validation_performance.py AdvancedCache._persist_hot_entries
persist_hot_entries(ac, cfg) ==
  IF cfg.strategy # "hybrid" \/ ac.memory_cache = <<>> THEN ac
  ELSE [ac EXCEPT !.persistent =
          SaveEntries(@, SeqFilter(ac.memory_cache,
                                   LAMBDA e : e.access_count >= hot_threshold))]

\* validation_performance.py AdvancedCache.clear
AdvancedCache_clear(ac) ==
  [memory_cache |-> <<>>, access_order |-> <<>>, persistent |-> <<>>]

\* the task data the cache is asked about
CacheTasks ==
  { [scraper_type |-> "scrapy", url |-> "https://shop.example/books",
     scraped_data |-> GoodRecords, fields |-> <<"title", "price", "image_url">>],
    [scraper_type |-> "playwright", url |-> "https://shop.example/books",
     scraped_data |-> <<>>, fields |-> <<>>] }

CacheKeySet == {AdvancedCache_generate_cache_key(t) : t \in CacheTasks}

\* ttl_override: None, or a ttl below the default
TtlOverrides == {<<>>, <<0>>}
NoOp == [op |-> "none"]

AdvancedInit ==
  /\ acfg \in [strategy : CacheStrategy, max_entries : 1..MaxEntries,
               max_memory_size : {ac_max_memory_size},
               default_ttl : {ac_default_ttl}]
  /\ maintenance_task = TRUE
  /\ acache = [memory_cache |-> <<>>, access_order |-> <<>>, persistent |-> <<>>]
  /\ clock = 0
  /\ last_op = NoOp
  /\ last_set = [k \in CacheKeySet |-> <<>>]

\* await cache.set(task_data, data, ttl_override)
CacheSet(task_data, data, ttl_override) ==
  /\ acache' = AdvancedCache_set(acache, acfg, task_data, data, ttl_override, FALSE, clock)
  /\ last_op' = [op |-> "set", task |-> task_data, data |-> data]
  /\ last_set' = [last_set EXCEPT ![AdvancedCache_generate_cache_key(task_data)] =
                    <<[data |-> data,
                       ttl  |-> IF ttl_override # <<>> THEN ttl_override[1]
                                ELSE acfg.default_ttl,
                       time |-> clock]>>]
  /\ UNCHANGED <<acfg, maintenance_task, clock>>
  /\ UNCHANGED not_avars

\* await cache.get(task_data)
CacheGet(task_data) ==
  /\ LET got == AdvancedCache_get(acache, acfg, task_data, clock)
         key == AdvancedCache_generate_cache_key(task_data)
     IN  /\ (key \in MemoryKeys(acache.memory_cache)
             => MemoryEntry(acache.memory_cache, key).access_count < MaxAccess)
         /\ acache' = got.ac
         /\ last_op' = [op |-> "get", task |-> task_data, result |-> got.result,
                        after_set |-> IF last_op.op = "set" /\ last_op.task = task_data
                                      THEN <<last_op.data>> ELSE <<>>]
  /\ UNCHANGED <<acfg, maintenance_task, clock, last_set>>
  /\ UNCHANGED not_avars

\* validation_performance.py AdvancedCache._maintenance_worker: one round
CacheMaintenance ==
  /\ maintenance_task
  /\ acache' = persist_hot_entries(
             optimize_memory_usage(AdvancedCache_cleanup_expired(acache, acfg, clock), acfg),
             acfg)
  /\ last_op' = NoOp
  /\ UNCHANGED <<acfg, maintenance_task, clock, last_set>>
  /\ UNCHANGED not_avars

\* cache.clear()
CacheClear ==
  /\ acache' = AdvancedCache_clear(acache)
  /\ last_op' = NoOp
  /\ last_set' = [k \in CacheKeySet |-> <<>>]
  /\ UNCHANGED <<acfg, maintenance_task, clock>>
  /\ UNCHANGED not_avars

\* the clock advances
CacheTick ==
  /\ clock < MaxClock
  /\ clock' = clock + 1
  /\ last_op' = NoOp
  /\ UNCHANGED <<acfg, maintenance_task, acache, last_set>>
  /\ UNCHANGED not_avars

(***************************************************************************)
(* What get and set of the AdvancedCache do in order, and how many times   *)
(* the calling thread holds self._lock (an RLock) at each step.            *)
(***************************************************************************)
Step(what, held) == [what |-> what, lock |-> held]

\* validation_performance.py AdvancedCache._serialize_entry
serialize_steps(data, held) ==
  <<Step("serialize", held)>>
  \o (IF Picklable(data) /\ PickleSize(data) > compression_threshold
      THEN <<Step("compress", held)>> ELSE <<>>)

\* validation_performance.py AdvancedCache._deserialize_entry
deserialize_steps(bytes, held) ==
  (IF bytes.compressed THEN <<Step("decompress", held)>> ELSE <<>>)
  \o <<Step("deserialize", held)>>

\* validation_performance.py AdvancedCache._save_to_persistent
save_steps(data, held) ==
  serialize_steps(data, held) \o <<Step("disk_write", held)>>

\* validation_performance.py AdvancedCache._load_from_persistent: exists and
\* getmtime, then os.remove of an expired file or the read of a live one
load_steps(persistent, cfg, cache_key, t, held) ==
  <<Step("disk_read", held)>>
  \o (IF cache_key \notin DOMAIN persistent THEN <<>>
      ELSE IF t - persistent[cache_key].mtime > cfg.default_ttl
      THEN <<Step("disk_write", held)>>
      ELSE <<Step("disk_read", held)>>
           \o deserialize_steps(persistent[cache_key].bytes, held))

\* validation_performance.py AdvancedCache.set, called with the lock held
\* `held` times
set_steps(cfg, data, promote_to_memory, held) ==
  serialize_steps(data, held)
  \o (IF ~Picklable(data) THEN <<>>
      ELSE <<Step("acquire", held + 1)>>
           \o (IF cfg.strategy \in {"memory_only", "hybrid"} \/ promote_to_memory
               THEN <<Step("index", held + 1)>> ELSE <<>>)
           \o (IF cfg.strategy \in {"persistent", "hybrid"}
               THEN save_steps(data, held + 1) ELSE <<>>)
           \o <<Step("release", held)>>)

\* validation_performance.py AdvancedCache.get
get_steps(ac, cfg, task_data, t) ==
  LET cache_key == AdvancedCache_generate_cache_key(task_data)
      loaded == load_from_persistent(ac.persistent, cfg, cache_key, t)
  IN  <<Step("acquire", 1)>>
      \o (IF cache_key \in MemoryKeys(ac.memory_cache) THEN <<Step("index", 1)>>
          ELSE IF cfg.strategy = "hybrid"
          THEN load_steps(ac.persistent, cfg, cache_key, t, 1)
               \o (IF loaded.data # <<>> /\ ValueTruthy(loaded.data[1])
                   THEN set_steps(cfg, loaded.data[1], TRUE, 1) ELSE <<>>)
          ELSE <<>>)
      \o <<Step("release", 0)>>

\* await cache.set(task_data, data), with the steps it took
TracedSet(task_data, data) ==
  /\ acache' = AdvancedCache_set(acache, acfg, task_data, data, <<>>, FALSE, clock)
  /\ fn_args' = [op |-> "set", task |-> task_data, data |-> data]
  /\ fn_result' = [op |-> "set", steps |-> set_steps(acfg, data, FALSE, 0)]
  /\ UNCHANGED <<acfg, maintenance_task, clock, last_op, last_set>>
  /\ UNCHANGED not_fvars_avars

\* await cache.get(task_data), with the steps it took
TracedGet(task_data) ==
  /\ LET key == AdvancedCache_generate_cache_key(task_data)
     IN  key \in MemoryKeys(acache.memory_cache)
           => MemoryEntry(acache.memory_cache, key).access_count < MaxAccess
  /\ acache' = AdvancedCache_get(acache, acfg, task_data, clock).ac
  /\ fn_args' = [op |-> "get", task |-> task_data]
  /\ fn_result' = [op |-> "get", steps |-> get_steps(acache, acfg, task_data, clock)]
  /\ UNCHANGED <<acfg, maintenance_task, clock, last_op, last_set>>
  /\ UNCHANGED not_fvars_avars

\* the clock advances between the calls
TracedTick ==
  /\ clock < MaxClock
  /\ clock' = clock + 1
  /\ UNCHANGED <<acfg, maintenance_task, acache, last_op, last_set>>
  /\ UNCHANGED not_avars

(***************************************************************************)
(* A ValidationCache of its own: ValidationCache(ttl, max_size), then calls *)
(* of set and get as time passes.                                          *)
(***************************************************************************)
MaxSize == 4                   \* max_size ranges over 1..MaxSize

\* cache keys of five different tasks
SizedKeys == {"key_a", "key_b", "key_c", "key_d", "key_e"}

\* what the manager around the cache holds, none of it touched
manager_rest == <<executor_shutdown, close_pc, stats, queue, pc, task, start_time,
                  response_data, norm_failed, worker, future, result, trace>>

\* ValidationCache(ttl=cache_ttl, max_size=max_size)
SizedInit ==
  /\ fn_args \in [op : {"ValidationCache"}, ttl : {cache_ttl}, max_size : 1..MaxSize]
  /\ fn_result = NoOp

\* cache.set(task, result) for a task with the key
SizedSet(key) ==
  /\ fn_args.op = "ValidationCache"
  /\ cache' = ValidationCache_set(cache, key,
                 create_error_result("Validation error", "https://shop.example/books", 0),
                 now, fn_args.ttl, fn_args.max_size)
  /\ UNCHANGED <<now, manager_rest, fvars>>
  /\ UNCHANGED <<avars, pvars, kvars, hvars, rvars>>

\* cache.get(task) for a task with the key
SizedGet(key) ==
  /\ fn_args.op = "ValidationCache"
  /\ cache' = ValidationCache_get(cache, key, now, fn_args.ttl).cache
  /\ UNCHANGED <<now, manager_rest, fvars>>
  /\ UNCHANGED <<avars, pvars, kvars, hvars, rvars>>

\* time passes
SizedTick ==
  /\ fn_args.op = "ValidationCache"
  /\ now < MaxTime
  /\ now' = now + 1
  /\ UNCHANGED <<cache, manager_rest, fvars>>
  /\ UNCHANGED <<avars, pvars, kvars, hvars, rvars>>

\* max_memory_size values below what two entries can weigh
PressureSizes == {2, 3}

\* a cache under byte pressure, all of it in memory
PressureInit ==
  /\ acfg \in [strategy : {"memory_only"}, max_entries : 1..MaxEntries,
               max_memory_size : PressureSizes,
               default_ttl : {ac_default_ttl}]
  /\ maintenance_task = TRUE
  /\ acache = [memory_cache |-> <<>>, access_order |-> <<>>, persistent |-> <<>>]
  /\ clock = 0
  /\ last_op = NoOp
  /\ last_set = [k \in CacheKeySet |-> <<>>]

\* cache._optimize_memory_usage(): the table before and after the call is kept
OptimizeMemoryUsage ==
  /\ acache' = optimize_memory_usage(acache, acfg)
  /\ last_op' = NoOp
  /\ fn_args' = [op |-> "optimize_memory_usage", ac |-> acache]
  /\ fn_result' = [op |-> "optimize_memory_usage", ac |-> acache']
  /\ UNCHANGED <<acfg, maintenance_task, clock, last_set>>
  /\ UNCHANGED not_fvars_avars

(***************************************************************************)
(* The producers of a ValidationResult: the validator, the simplified      *)
(* validation of the error layer, and the manager's error result.          *)
(***************************************************************************)
\* a simplified validation that takes every status below 400 as success
simplified_validation_lenient(error, ctx) ==
  LET scraped_data == ctx.scraped_data
      status_code  == ctx.response_data.status_code
      has_data  == scraped_data # <<>>
      status_ok == status_code < 400
  IN  [is_successful |-> has_data /\ status_ok,
       is_blocked    |-> ~status_ok /\ status_code >= 400,
       bot_detection_system |-> "none",
       confidence_score |-> IF has_data THEN <<1, 2>> ELSE RZero,
       issues   |-> IF has_data THEN <<>> ELSE <<Issue("data", "No data extracted")>>,
       warnings |-> <<Issue("warning", "Simplified validation used due to error")>>,
       metadata |-> [simplified_validation |-> TRUE, original_error |-> error,
                     data_count |-> Len(scraped_data)]]

\* validation_error_handling.py SimplifiedValidationStrategy.attempt_recovery:
\* the result it puts into the context
simplified_validation(error, ctx) ==
  LET scraped_data == ctx.scraped_data
      status_code  == ctx.response_data.status_code
      has_data  == scraped_data # <<>>
      status_ok == 200 <= status_code /\ status_code < 300
  IN  [is_successful |-> has_data /\ status_ok,
       is_blocked    |-> ~status_ok /\ status_code >= 400,
       bot_detection_system |-> "none",
       confidence_score |-> IF has_data THEN <<1, 2>> ELSE RZero,
       issues   |-> IF has_data THEN <<>> ELSE <<Issue("data", "No data extracted")>>,
       warnings |-> <<Issue("warning", "Simplified validation used due to error")>>,
       metadata |-> [simplified_validation |-> TRUE, original_error |-> error,
                     data_count |-> Len(scraped_data)]]

StatusCodes == {0, 200, 301, 403, 429, 503}
HeaderLists == {<<>>, <<"cf-ray">>, <<"x-blocked-by">>}
RecordLists == {<<>>, GoodRecords, SparseRecords}

ProducerInit ==
  /\ context \in [response_data : [url : Urls, status_code : StatusCodes,
                                   headers : HeaderLists, content : Contents],
                  scraped_data : RecordLists, error : {"timeout"}]
  /\ produced = NoOp

\* ScrapingValidator.validate_scraping_result(response_data, scraped_data)
Validate ==
  /\ produced' = [op |-> "validator",
                  result |-> validate_scraping_result(DefaultValidatorConfig,
                                                      context.response_data,
                                                      context.scraped_data)]
  /\ UNCHANGED <<context, not_pvars>>

\* SimplifiedValidationStrategy.attempt_recovery(error, context)
Simplify ==
  /\ produced' = [op |-> "simplified",
                  result |-> simplified_validation(context.error, context)]
  /\ UNCHANGED <<context, not_pvars>>

\* ValidationManager._create_error_result(str(e), url)
ErrorResult ==
  /\ produced' = [op |-> "error",
                  result |-> create_error_result(context.error,
                                                 context.response_data.url, 0)]
  /\ UNCHANGED <<context, not_pvars>>

(***************************************************************************)
(* The cache keys of two tasks, as ValidationCache and AdvancedCache        *)
(* compute them.  A key is the tuple of what is hashed: the digests are     *)
(* taken as injective.  A task carries, next to the fields of a             *)
(* ValidationTask, the order in which its first record holds its keys.      *)
(***************************************************************************)
KeyRecord(title) == [title |-> title, price |-> "f51"]

\* six records, and the lists that differ from them in the sixth record (after
\* the samples of both caches), in the fourth (after AdvancedCache's sample of
\* three), or in length
KeyRecordLists ==
  LET six == <<KeyRecord("attic"), KeyRecord("velvet"), KeyRecord("attic"),
               KeyRecord("velvet"), KeyRecord("attic"), KeyRecord("velvet")>>
  IN  { six,
        [six EXCEPT ![6] = KeyRecord("attic")],
        [six EXCEPT ![4] = KeyRecord("attic")],
        SubSeq(six, 1, 1),
        <<>> }

\* list(record.keys()) of a first record: the orders a dict with these keys has
KeyOrders(scraped_data) ==
  IF scraped_data = <<>> THEN {<<>>}
  ELSE {<<"title", "price">>, <<"price", "title">>}

KeyTasks ==
  { [scraper_type |-> st, response_source |-> rs, scraped_data |-> sd,
     url |-> u, task_id |-> id, fields |-> f] :
      st \in {"scrapy", "playwright"}, rs \in {OkResponse, NoneHandle},
      sd \in KeyRecordLists, u \in {NoUrl, "https://shop.example/books"},
      id \in {1, 2}, f \in {<<>>, <<"title", "price">>, <<"price", "title">>} }

KeyInit ==
  /\ key_tasks \in {kt \in KeyTasks \X KeyTasks :
                      /\ kt[1].task_id = 1 /\ kt[2].task_id = 2
                      /\ \A i \in 1..2 : kt[i].fields \in KeyOrders(kt[i].scraped_data)}
  /\ key_result = NoOp

KeyIdle ==
  /\ key_tasks = <<NoTask, NoTask>>
  /\ key_result = NoOp

\* ValidationCache._generate_cache_key(task) of both tasks
ValidationCacheKeys ==
  /\ key_result' = [op |-> "ValidationCache",
                    keys |-> [i \in 1..2 |-> generate_cache_key(key_tasks[i])]]
  /\ UNCHANGED <<key_tasks, not_kvars>>

\* AdvancedCache._generate_cache_key(task_data) of both tasks
AdvancedCacheKeys ==
  /\ key_result' = [op |-> "AdvancedCache",
                    keys |-> [i \in 1..2 |->
                                AdvancedCache_generate_cache_key(key_tasks[i])]]
  /\ UNCHANGED <<key_tasks, not_kvars>>

(***************************************************************************)
(* validation_error_handling.py: ValidationErrorHandler and its recovery   *)
(* strategies.  Delays are in half seconds, so that 0.5 s is 1.            *)
(***************************************************************************)
ErrorSeverity == {"low", "medium", "high", "critical"}

ErrorCategory == {"configuration", "network", "parsing", "validation",
                  "resource", "system", "integration"}

\* ErrorRecoveryStrategy.__init__(name, max_attempts=3)
max_attempts == 3

\* RetryWithBackoffStrategy.__init__(base_delay=1.0, max_delay=30.0)
RetryWithBackoffStrategy(base_delay, max_delay) ==
  [name |-> "RetryWithBackoff", max_attempts |-> max_attempts,
   base_delay |-> base_delay, max_delay |-> max_delay]

FallbackResponseDataStrategy ==
  [name |-> "FallbackResponseData", max_attempts |-> max_attempts]

SimplifiedValidationStrategy ==
  [name |-> "SimplifiedValidation", max_attempts |-> max_attempts]

\* ValidationErrorHandler.__init__: self.recovery_strategies
recovery_strategies ==
  [category \in ErrorCategory |->
     CASE category = "network" ->
            <<RetryWithBackoffStrategy(4, 120), FallbackResponseDataStrategy>>
       [] category = "parsing" ->
            <<RetryWithBackoffStrategy(1, 10), SimplifiedValidationStrategy>>
       [] category = "validation" -> <<SimplifiedValidationStrategy>>
       [] category = "resource" ->
            <<RetryWithBackoffStrategy(10, 240), SimplifiedValidationStrategy>>
       [] category = "configuration" -> <<FallbackResponseDataStrategy>>
       [] category = "integration" ->
            <<RetryWithBackoffStrategy(2, 20), FallbackResponseDataStrategy,
              SimplifiedValidationStrategy>>
       [] category = "system" -> <<SimplifiedValidationStrategy>>]

\* how a call of strategy.attempt_recovery(error, context) can end: it returns
\* True, returns False, or raises (a context that is no dict makes
\* RetryWithBackoffStrategy raise; the base class raises NotImplementedError)
StrategyOutcomes == {"true", "false", "raise"}

MaxNewErrors == 2              \* errors recorded after Init
PriorErrors == 999             \* errors recorded before Init in the long history

\* the ValidationError with arrival number seq (message, exception, component
\* and timestamp are not followed)
NewError(seq, category, severity) ==
  [seq |-> seq, category |-> category, severity |-> severity,
   recovery_attempted |-> FALSE, recovery_successful |-> FALSE]

\* ValidationErrorHandler.record_error without the cap
record_error_unbounded(h, error) ==
  [h EXCEPT !.errors = Append(@, error),
            !.error_counts[<<error.category, error.severity>>] = @ + 1,
            !.arrivals = @ + 1]

\* ValidationErrorHandler.record_error; arrivals counts the calls
record_error(h, error) ==
  LET errors == Append(h.errors, error)
  IN  [h EXCEPT !.errors = IF Len(errors) > 1000
                           THEN SubSeq(errors, Len(errors) - 999, Len(errors))
                           ELSE errors,
                !.error_counts[<<error.category, error.severity>>] = @ + 1,
                !.arrivals = @ + 1]

\* the handler after n record_error calls with system errors of medium severity;
\* ValidationErrorHandler.__init__ has n = 0
HandlerAfter(n) ==
  [errors |-> [i \in 1..n |-> NewError(i, "system", "medium")],
   error_counts |-> [k \in ErrorCategory \X ErrorSeverity |->
                       IF k = <<"system", "medium">> THEN n ELSE 0],
   arrivals |-> n]

HandlerInit ==
  /\ handler = HandlerAfter(PriorErrors)
  /\ recovery = NoOp

HandlerIdle ==
  /\ handler = HandlerAfter(0)
  /\ recovery = NoOp

\* the assignments of handle_error to validation_error after _attempt_recovery:
\* the error is the object that the history holds, when it still holds it
set_recovery_status(h, seq, recovery_successful) ==
  [h EXCEPT !.errors =
     [i \in 1..Len(@) |->
        IF @[i].seq = seq
        THEN [@[i] EXCEPT !.recovery_attempted = TRUE,
                          !.recovery_successful = recovery_successful]
        ELSE @[i]]]

\* _attempt_recovery that goes on after a strategy returned True
after_strategy_exhaustive(rec, outcome) ==
  LET invoked == Append(rec.invoked, [name |-> rec.strategies[rec.i].name,
                                      outcome |-> outcome])
  IN  IF rec.i < Len(rec.strategies)
      THEN [rec EXCEPT !.invoked = invoked, !.i = @ + 1]
      ELSE [rec EXCEPT !.invoked = invoked, !.op = "returned",
                       !.result = \E j \in 1..Len(invoked) :
                                     invoked[j].outcome = "true"]

\* ValidationErrorHandler._attempt_recovery, the body of the loop: what follows
\* the end of strategy.attempt_recovery of strategy rec.i
after_strategy(rec, outcome) ==
  LET invoked == Append(rec.invoked, [name |-> rec.strategies[rec.i].name,
                                      outcome |-> outcome])
  IN  IF outcome = "true"
      THEN [rec EXCEPT !.invoked = invoked, !.op = "returned", !.result = TRUE]
      ELSE IF rec.i < Len(rec.strategies)
      THEN [rec EXCEPT !.invoked = invoked, !.i = @ + 1]
      ELSE [rec EXCEPT !.invoked = invoked, !.op = "returned", !.result = FALSE]

\* handler.record_error(error)
RecordError(category, severity) ==
  /\ handler.arrivals < PriorErrors + MaxNewErrors
  /\ handler' = record_error(handler,
                             NewError(handler.arrivals + 1, category, severity))
  /\ UNCHANGED <<recovery, not_hvars>>

\* handle_error(error, context) up to the first await: the error is recorded
\* and the first strategy of its category is invoked
HandleError(category, severity) ==
  /\ recovery.op # "recovering"
  /\ handler.arrivals < PriorErrors + MaxNewErrors
  /\ handler' = record_error(handler,
                             NewError(handler.arrivals + 1, category, severity))
  /\ recovery' =
       IF recovery_strategies[category] = <<>>
       THEN [op |-> "returned", seq |-> handler.arrivals + 1,
             category |-> category, strategies |-> <<>>, i |-> 1,
             invoked |-> <<>>, result |-> FALSE]
       ELSE [op |-> "recovering", seq |-> handler.arrivals + 1,
             category |-> category,
             strategies |-> recovery_strategies[category], i |-> 1,
             invoked |-> <<>>, result |-> FALSE]
  /\ UNCHANGED not_hvars

\* the strategy invoked by _attempt_recovery ends; handle_error goes on to the
\* next await or to its return
StrategyEnds(outcome) ==
  /\ recovery.op = "recovering"
  /\ recovery' = after_strategy(recovery, outcome)
  /\ handler' = IF recovery'.op = "returned"
                THEN set_recovery_status(handler, recovery.seq, recovery'.result)
                ELSE handler
  /\ UNCHANGED not_hvars

\* handler.clear_error_history()
ClearErrorHistory ==
  /\ handler.errors # <<>>
  /\ handler' = [handler EXCEPT !.errors = <<>>,
                   !.error_counts = [k \in ErrorCategory \X ErrorSeverity |-> 0]]
  /\ UNCHANGED <<recovery, not_hvars>>

(***************************************************************************)
(* RetryWithBackoffStrategy.attempt_recovery                               *)
(***************************************************************************)
\* the strategies of the handler, the default one, and strategies whose
\* max_delay is reached within the attempts
RetryStrategies ==
  { RetryWithBackoffStrategy(4, 120), RetryWithBackoffStrategy(1, 10),
    RetryWithBackoffStrategy(10, 240), RetryWithBackoffStrategy(2, 20),
    RetryWithBackoffStrategy(2, 60), RetryWithBackoffStrategy(2, 3),
    RetryWithBackoffStrategy(10, 10), RetryWithBackoffStrategy(1, 3) }

\* how a call of the retry operation can end
OperationOutcomes == {"truthy", "falsy", "raise"}

\* a delay that is never capped
backoff_delay_uncapped(strategy, attempt) == strategy.base_delay * (2 ^ attempt)

\* delay = min(self.base_delay * (2 ** attempt), self.max_delay)
backoff_delay(strategy, attempt) ==
  Min(strategy.base_delay * (2 ^ attempt), strategy.max_delay)

RetryFrame(strategy, has_operation) ==
  [op |-> "idle", strategy |-> strategy, has_operation |-> has_operation,
   attempt |-> 0, delays |-> <<>>, outcomes |-> <<>>, result |-> FALSE]

RetryInit ==
  retry \in {RetryFrame(s, b) : s \in RetryStrategies, b \in BOOLEAN}

RetryIdle == retry = RetryFrame(RetryWithBackoffStrategy(2, 60), FALSE)

\* attempt_recovery(error, context) up to the first await: without a retry
\* operation it returns False, otherwise it sleeps before attempt 0
RetryBegin ==
  /\ retry.op = "idle"
  /\ retry' =
       IF ~retry.has_operation \/ retry.strategy.max_attempts = 0
       THEN [retry EXCEPT !.op = "returned", !.result = FALSE]
       ELSE [retry EXCEPT !.op = "sleeping",
                          !.delays = <<backoff_delay(retry.strategy, 0)>>]
  /\ UNCHANGED not_rvars

\* the sleep is over and the operation is awaited; it ends with the outcome
RetryAttempt(outcome) ==
  /\ retry.op = "sleeping"
  /\ retry' =
       IF outcome = "truthy"
       THEN [retry EXCEPT !.outcomes = Append(@, outcome),
                          !.op = "returned", !.result = TRUE]
       ELSE IF retry.attempt + 1 < retry.strategy.max_attempts
       THEN [retry EXCEPT !.outcomes = Append(@, outcome),
                          !.attempt = @ + 1,
                          !.delays = Append(@, backoff_delay(retry.strategy,
                                                             retry.attempt + 1))]
       ELSE [retry EXCEPT !.outcomes = Append(@, outcome),
                          !.op = "returned", !.result = FALSE]
  /\ UNCHANGED not_rvars

(***************************************************************************)
(* Calls of single functions: fn_args holds the arguments, an action calls *)
(* the function on them.                                                   *)
(***************************************************************************)
FnIdle ==
  /\ fn_args = NoOp
  /\ fn_result = NoOp

(***************************************************************************)
(* Threads that call ValidationErrorHandler.record_error at the same time  *)
(* (the sync wrapper of with_error_handling calls it from any thread; the  *)
(* method takes no lock).  A thread may be suspended between any two       *)
(* operations on the shared handler.                                       *)
(***************************************************************************)
MaxThreads == 2                \* threads that record errors
MaxRecords == 2                \* calls of record_error followed per thread

Threads == 1..MaxThreads

\* the errors the threads record
RaceCategories == {"network", "system"}

\* a thread outside record_error, after `calls` calls
ThreadIdle(calls) == [pc |-> "idle", calls |-> calls]

\* fn_args holds the frame of each thread's call
RaceInit ==
  /\ fn_args = [op |-> "record_error", threads |-> [t \in Threads |-> ThreadIdle(0)]]
  /\ fn_result = NoOp

\* validation_error_handling.py record_error, lines 379-383: the append (one
\* list operation) and the trim of a history of more than 1000 errors
RaceAppend(t, category) ==
  /\ fn_args.op = "record_error"
  /\ fn_args.threads[t].pc = "idle"
  /\ fn_args.threads[t].calls < MaxRecords
  /\ LET error == NewError(<<t, fn_args.threads[t].calls + 1>>, category, "medium")
         errors == Append(handler.errors, error)
     IN  /\ handler' = [handler EXCEPT !.errors =
                          IF Len(errors) > 1000
                          THEN SubSeq(errors, Len(errors) - 999, Len(errors))
                          ELSE errors]
         /\ fn_args' = [fn_args EXCEPT !.threads[t] =
                          [pc |-> "appended", calls |-> @.calls, error |-> error]]
  /\ UNCHANGED <<recovery, fn_result, not_fvars_hvars>>

\* line 387, right-hand side: self.error_counts.get(error_key, 0) + 1
RaceReadCount(t) ==
  /\ fn_args.op = "record_error"
  /\ fn_args.threads[t].pc = "appended"
  /\ LET error == fn_args.threads[t].error
     IN  fn_args' = [fn_args EXCEPT !.threads[t] =
                      [pc |-> "counted", calls |-> @.calls, error |-> error,
                       count |-> handler.error_counts[<<error.category,
                                                        error.severity>>] + 1]]
  /\ UNCHANGED <<hvars, fn_result, not_fvars_hvars>>

\* line 387, the store into self.error_counts[error_key]; the call returns
RaceWriteCount(t) ==
  /\ fn_args.op = "record_error"
  /\ fn_args.threads[t].pc = "counted"
  /\ LET error == fn_args.threads[t].error
     IN  handler' = [handler EXCEPT
                      !.error_counts[<<error.category, error.severity>>] =
                         fn_args.threads[t].count,
                      !.arrivals = @ + 1]
  /\ fn_args' = [fn_args EXCEPT !.threads[t] = ThreadIdle(@.calls + 1)]
  /\ fn_result' = [op |-> "record_error", thread |-> t]
  /\ UNCHANGED <<recovery, not_fvars_hvars>>

\* an object without attributes
NoAttrs == <<>>

\* the attributes a handle can have
CollectAttrs ==
  { {}, {"status"}, {"url"}, ScrapyAttrs, {"status", "url", "body"},
    {"url", "evaluate", "content", "viewport_size", "is_closed"},
    {"url", "viewport_size", "is_closed"}, {"url", "evaluate", "content"},
    {"url", "go_to", "evaluate"}, {"url", "go_to"},
    {"status_code", "headers", "url", "text"}, {"status_code", "headers"} }

\* the handles given to the collectors; the one without attributes is None
CollectHandles ==
  { Handle(attrs, raises, FALSE, status, "https://shop.example/books",
           <<"content-type">>, "plain") :
      attrs \in CollectAttrs, raises \in BOOLEAN, status \in {200, 403} }
  \cup {NoneHandle, RaisingHandle, HangingPage}

CollectInit ==
  /\ fn_args \in [source : CollectHandles,
                  url : {NoUrl, "https://shop.example/books"}]
  /\ fn_result = NoOp

\* await ResponseCollectorFactory.create_collector(scraper_type)
\*         .collect_response_data(source, url)
Collect(scraper_type) ==
  /\ fn_result' = [op |-> scraper_type,
                   outcome |-> collect_response_data(scraper_type, fn_args.source,
                                                     fn_args.url)]
  /\ UNCHANGED <<fn_args, not_fvars>>

(***************************************************************************)
(* validation_config.py: ValidationConfig.  The environment is a record of *)
(* optional values, <<>> for a variable that is not set and <<v>> for one  *)
(* whose text denotes the number or the list v; the command-line arguments *)
(* are None (<<>>) or <<a>> with a the record of the attributes args has.  *)
(***************************************************************************)
getenv(env, name, default) == IF env[name] = <<>> THEN default ELSE env[name][1]

\* ValidationConfig._validate_config (log_level is not followed)
validate_config(config) ==
  LET stripped == SelectSeq(config.min_required_fields, LAMBDA f : f # "")
  IN  [config EXCEPT
         !.min_data_quality_score =
            IF ~(RLeq(RZero, @) /\ RLeq(@, <<1, 1>>)) THEN <<7, 10>> ELSE @,
         !.max_placeholder_ratio =
            IF ~(RLeq(RZero, @) /\ RLeq(@, <<1, 1>>)) THEN <<3, 10>> ELSE @,
         !.validation_timeout = IF @ <= 0 THEN 30 ELSE @,
         !.cache_ttl = IF @ <= 0 THEN 300 ELSE @,
         !.min_required_fields = IF stripped = <<>> THEN <<"title">> ELSE stripped]

\* ValidationConfig(): the field defaults read the environment, then
\* __post_init__ validates
ValidationConfig(env) ==
  validate_config(
    [min_data_quality_score |-> getenv(env, "SCRAPER_MIN_DATA_QUALITY_SCORE", <<7, 10>>),
     min_required_fields |-> getenv(env, "SCRAPER_MIN_REQUIRED_FIELDS", <<"title">>),
     max_placeholder_ratio |-> getenv(env, "SCRAPER_MAX_PLACEHOLDER_RATIO", <<3, 10>>),
     validation_timeout |-> getenv(env, "SCRAPER_VALIDATION_TIMEOUT", 30),
     enable_caching |-> TRUE,
     cache_ttl |-> getenv(env, "SCRAPER_CACHE_TTL", 300),
     max_content_size |-> getenv(env, "SCRAPER_MAX_CONTENT_SIZE", 1048576)])

\* ValidationConfig.create_from_args(args); args that is None or has no
\* attribute leaves the configuration of the environment
create_from_args(env, args) ==
  LET config == ValidationConfig(env)
  IN  IF args = <<>> \/ args = <<NoAttrs>> THEN config
      ELSE [f \in DOMAIN config |->
              CASE f = "min_data_quality_score"
                     /\ "validation_quality_score" \in DOMAIN args[1]
                     -> args[1].validation_quality_score
                [] f = "validation_timeout" /\ "validation_timeout" \in DOMAIN args[1]
                     -> args[1].validation_timeout
                [] OTHER -> config[f]]

\* get_validation_config(args); DEFAULT_CONFIG is ValidationConfig() of the
\* environment at import
get_validation_config(env, args) ==
  IF args # <<>> THEN create_from_args(env, args) ELSE ValidationConfig(env)

\* the environments followed
ConfigEnvs ==
  [SCRAPER_MIN_DATA_QUALITY_SCORE : {<<>>, <<<<1, 2>>>>, <<<<3, 2>>>>, <<<<-1, 10>>>>},
   SCRAPER_MIN_REQUIRED_FIELDS : {<<>>, <<<<"">>>>, <<<<"title", "price">>>>},
   SCRAPER_MAX_PLACEHOLDER_RATIO : {<<>>, <<<<2, 1>>>>},
   SCRAPER_VALIDATION_TIMEOUT : {<<>>, <<10>>, <<0>>, <<-5>>},
   SCRAPER_CACHE_TTL : {<<>>, <<60>>, <<0>>},
   SCRAPER_MAX_CONTENT_SIZE : {<<>>, <<4096>>, <<0>>, <<-1>>}]

\* the command-line arguments followed
ConfigArgs ==
  { <<>>, <<NoAttrs>>,
    <<[validation_timeout |-> 10]>>, <<[validation_timeout |-> -5]>>,
    <<[validation_timeout |-> 0]>>,
    <<[validation_quality_score |-> <<1, 2>>]>>,
    <<[validation_quality_score |-> <<3, 2>>]>>,
    <<[validation_quality_score |-> <<3, 2>>, validation_timeout |-> 0]>> }

ConfigInit ==
  /\ fn_args \in [env : ConfigEnvs, args : ConfigArgs]
  /\ fn_result = NoOp

\* ValidationConfig() under the environment
ConfigFromEnv ==
  /\ fn_result' = [op |-> "ValidationConfig", config |-> ValidationConfig(fn_args.env)]
  /\ UNCHANGED <<fn_args, not_fvars>>

\* ValidationConfig.create_from_args(args)
ConfigFromArgs ==
  /\ fn_result' = [op |-> "create_from_args",
                   config |-> create_from_args(fn_args.env, fn_args.args)]
  /\ UNCHANGED <<fn_args, not_fvars>>

\* get_validation_config(args)
GetValidationConfig ==
  /\ fn_result' = [op |-> "get_validation_config",
                   config |-> get_validation_config(fn_args.env, fn_args.args)]
  /\ UNCHANGED <<fn_args, not_fvars>>

(***************************************************************************)
(* The validator as the ValidationManager builds it, and its analyses.     *)
(***************************************************************************)
\* validator.py ScrapingValidator._load_config(config_path): config.read gives
\* no file ("missing"), the values of the file's validator section ("ini"), or
\* raises TypeError for an argument that is no path ("object"), which the
\* except branch answers with the defaults
load_config(config_path) ==
  IF config_path.kind = "ini"
  THEN [min_data_quality_score |-> config_path.value.min_data_quality_score,
        min_required_fields |-> config_path.value.min_required_fields]
  ELSE DefaultValidatorConfig

\* validation_manager.py ValidationManager.__init__:
\* self.validator = ScrapingValidator(self.logger, self.config) hands the
\* ValidationConfig to the parameter config_path
ManagerValidatorConfig(config) == load_config([kind |-> "object", value |-> config])

ClassifyStatusCodes == {0, 200, 401, 403, 404, 429, 451, 503}
ClassifyHeaders ==
  {<<>>, <<"cf-ray">>, <<"x-akamai-id", "cf-ray">>, <<"x-blocked-by">>}
TitleOnlyRecords == << [title |-> "attic"], [title |-> "velvet"] >>
ClassifyRecords == {<<>>, GoodRecords, SparseRecords, TitleOnlyRecords}

\* the configurations a manager is built with: the quality threshold and the
\* required fields come from the environment
ManagerConfigs ==
  { ValidationConfig(env) :
      env \in { e \in ConfigEnvs :
                 /\ e.SCRAPER_MIN_DATA_QUALITY_SCORE \in {<<>>, <<<<1, 2>>>>}
                 /\ e.SCRAPER_MIN_REQUIRED_FIELDS \in {<<>>, <<<<"title", "price">>>>}
                 /\ e.SCRAPER_MAX_PLACEHOLDER_RATIO = <<>>
                 /\ e.SCRAPER_VALIDATION_TIMEOUT = <<>>
                 /\ e.SCRAPER_CACHE_TTL = <<>>
                 /\ e.SCRAPER_MAX_CONTENT_SIZE = <<>> } }

ClassifyInit ==
  /\ fn_args \in [response_data : [url : Urls, status_code : ClassifyStatusCodes,
                                   headers : ClassifyHeaders, content : Contents],
                  scraped_data : ClassifyRecords,
                  config : ManagerConfigs]
  /\ fn_result = NoOp

\* validator._analyze_blocking(response_data)
AnalyzeBlocking ==
  /\ fn_result' = [op |-> "analyze_blocking",
                   analysis |-> analyze_blocking(fn_args.response_data)]
  /\ UNCHANGED <<fn_args, not_fvars>>

\* validator._detect_bot_system(response_data)
DetectBotSystem ==
  /\ fn_result' = [op |-> "detect_bot_system",
                   detection |-> detect_bot_system(fn_args.response_data)]
  /\ UNCHANGED <<fn_args, not_fvars>>

\* ValidationManager(config).validator.validate_scraping_result(response_data,
\* scraped_data)
ManagerValidate ==
  /\ fn_result' = [op |-> "validate_scraping_result",
                   result |-> validate_scraping_result(
                                ManagerValidatorConfig(fn_args.config),
                                fn_args.response_data, fn_args.scraped_data)]
  /\ UNCHANGED <<fn_args, not_fvars>>

(***************************************************************************)
(* SimplifiedValidationStrategy.attempt_recovery on a context dict: the    *)
(* context is a function from the keys it holds; scraped_data that is None *)
(* or [] is the empty sequence.                                            *)
(***************************************************************************)
\* d.get(key, default)
DictGet(d, key, default) == IF key \in DOMAIN d THEN d[key] ELSE default

\* SimplifiedValidationStrategy.attempt_recovery(error, context): what it
\* returns and the context it leaves
attempt_simplified_validation(error, ctx) ==
  LET rd == DictGet(ctx, "response_data", <<>>)
      full == [scraped_data |-> DictGet(ctx, "scraped_data", <<>>),
               response_data |-> [status_code |-> DictGet(rd, "status_code", 0)]]
  IN  [returned |-> TRUE,
       context |-> ("validation_result" :> simplified_validation(error, full)) @@ ctx]

SimplifiedStatusCodes == {0, 199, 200, 250, 299, 300, 404}

\* the response data a context holds
SimplifiedResponses ==
  {<<>>} \cup {("url" :> u) : u \in Urls}
  \cup {("url" :> u) @@ ("status_code" :> sc) : u \in Urls, sc \in SimplifiedStatusCodes}

\* the contexts given to the strategy
SimplifiedContexts ==
  { s1 @@ s2 : s1 \in {<<>>} \cup {("scraped_data" :> sd) :
                                     sd \in {<<>>, GoodRecords, SparseRecords}},
               s2 \in {<<>>} \cup {("response_data" :> rd) : rd \in SimplifiedResponses} }

SimplifiedInit ==
  /\ fn_args \in [error : {"timeout", "parse"}, context : SimplifiedContexts]
  /\ fn_result = NoOp

\* await SimplifiedValidationStrategy().attempt_recovery(error, context)
AttemptSimplified ==
  /\ fn_result' = [op |-> "attempt_recovery"] @@
                  attempt_simplified_validation(fn_args.error, fn_args.context)
  /\ UNCHANGED <<fn_args, not_fvars>>

(***************************************************************************)
(* Two calls of ScrapingValidator.validate_scraping_result                 *)
(***************************************************************************)
\* the arguments of the two calls
PairInputs ==
  [response_data : [url : {"https://example.com"}, status_code : {0, 200, 301, 404},
                    headers : {<<>>, <<"cf-ray">>}, content : {"", "plain", "human"}],
   scraped_data : {<<>>, GoodRecords, SparseRecords}]

PairInit ==
  /\ fn_args \in PairInputs \X PairInputs
  /\ fn_result = NoOp

\* ScrapingValidator().validate_scraping_result(response_data, scraped_data),
\* called on both arguments
ValidatePair ==
  /\ fn_result' =
       [op |-> "validate_pair",
        results |-> [i \in 1..2 |->
                       validate_scraping_result(DefaultValidatorConfig,
                                                fn_args[i].response_data,
                                                fn_args[i].scraped_data)]]
  /\ UNCHANGED <<fn_args, not_fvars>>

(***************************************************************************)
(* Specifications.  Each follows one component; the others stay as they    *)
(* are after construction.                                                 *)
(***************************************************************************)
AdvancedIdle ==
  /\ acfg = [strategy |-> "hybrid", max_entries |-> MaxEntries,
             max_memory_size |-> ac_max_memory_size, default_ttl |-> ac_default_ttl]
  /\ maintenance_task = FALSE
  /\ acache = [memory_cache |-> <<>>, access_order |-> <<>>, persistent |-> <<>>]
  /\ clock = 0
  /\ last_op = NoOp
  /\ last_set = [k \in CacheKeySet |-> <<>>]

ProducerIdle ==
  /\ context = [response_data |-> NoResponseData, scraped_data |-> <<>>,
                error |-> "timeout"]
  /\ produced = NoOp

\* the components added last, as they are after construction
OthersIdle == HandlerIdle /\ RetryIdle /\ FnIdle

\* the ValidationManager
Init == ManagerInit /\ AdvancedIdle /\ ProducerIdle /\ KeyIdle /\ OthersIdle

Next ==
  \/ \E c \in Calls : \E input \in TaskInputs : Begin(c, input)
  \/ \E c \in Calls : NormalizeDone(c)
  \/ \E c \in Calls : NormalizeTimeout(c)
  \/ \E c \in Calls : WorkerStart(c)
  \/ \E c \in Calls : WorkerFinish(c)
  \/ \E c \in Calls : WorkerStall(c)
  \/ \E c \in Calls : Resume(c)
  \/ CloseBegin
  \/ CloseEnd
  \/ Tick

Spec == Init /\ [][Next]_vars

\* the calls followed for progress: a response that is read at once and a page
\* whose collection never completes
LiveInputs ==
  { <<"scrapy", OkResponse, GoodRecords, NoUrl>>,
    <<"playwright", HangingPage, GoodRecords, NoUrl>> }

LiveNext ==
  \/ \E c \in Calls : \E input \in LiveInputs : Begin(c, input)
  \/ \E c \in Calls : NormalizeDone(c)
  \/ \E c \in Calls : NormalizeTimeout(c)
  \/ \E c \in Calls : WorkerStart(c)
  \/ \E c \in Calls : WorkerFinish(c)
  \/ \E c \in Calls : WorkerStall(c)
  \/ \E c \in Calls : Resume(c)
  \/ CloseBegin
  \/ CloseEnd
  \/ Tick

\* the event loop and the pool are fair: the clock advances, a collector that can
\* return returns, a timeout that is due fires, a free thread takes the next work
\* item, a validator that has not stalled finishes, and a call whose future is
\* set resumes
FairSpec ==
  /\ Init /\ [][LiveNext]_vars
  /\ WF_vars(Tick)
  /\ \A c \in Calls : /\ WF_vars(NormalizeDone(c))
                      /\ WF_vars(NormalizeTimeout(c))
                      /\ WF_vars(WorkerStart(c))
                      /\ WF_vars(WorkerFinish(c))
                      /\ WF_vars(Resume(c))

\* the AdvancedCache
CacheInit == AdvancedInit /\ ManagerInit /\ ProducerIdle /\ KeyIdle /\ OthersIdle

CacheNext ==
  \/ \E task_data \in CacheTasks : \E data \in CacheValues :
       \E ttl_override \in TtlOverrides : CacheSet(task_data, data, ttl_override)
  \/ \E task_data \in CacheTasks : CacheGet(task_data)
  \/ CacheMaintenance
  \/ CacheClear
  \/ CacheTick

CacheSpec == CacheInit /\ [][CacheNext]_vars

\* the producers of results
VerdictInit == ProducerInit /\ ManagerInit /\ AdvancedIdle /\ KeyIdle /\ OthersIdle

VerdictNext == Validate \/ Simplify \/ ErrorResult

VerdictSpec == VerdictInit /\ [][VerdictNext]_vars

\* the ValidationManager after PriorCalls earlier calls
StatsInit ==
  ManagerStart(StatsAfter(PriorCalls)) /\ AdvancedIdle /\ ProducerIdle /\ KeyIdle /\ OthersIdle

StatsSpec == StatsInit /\ [][Next]_vars

\* the cache keys
KeyCompareInit == KeyInit /\ ManagerInit /\ AdvancedIdle /\ ProducerIdle /\ OthersIdle

KeyNext == ValidationCacheKeys \/ AdvancedCacheKeys

KeySpec == KeyCompareInit /\ [][KeyNext]_vars

\* the ValidationErrorHandler
HandlerStart ==
  HandlerInit /\ RetryIdle /\ FnIdle /\ ManagerInit /\ AdvancedIdle /\ ProducerIdle /\ KeyIdle

HandlerNext ==
  \/ \E category \in ErrorCategory : \E severity \in ErrorSeverity :
       RecordError(category, severity)
  \/ \E category \in ErrorCategory : \E severity \in ErrorSeverity :
       HandleError(category, severity)
  \/ \E outcome \in StrategyOutcomes : StrategyEnds(outcome)
  \/ ClearErrorHistory

HandlerSpec == HandlerStart /\ [][HandlerNext]_vars

\* the retry strategy
RetryStart ==
  RetryInit /\ HandlerIdle /\ FnIdle /\ ManagerInit /\ AdvancedIdle /\ ProducerIdle /\ KeyIdle

RetryNext == RetryBegin \/ \E outcome \in OperationOutcomes : RetryAttempt(outcome)

RetrySpec == RetryStart /\ [][RetryNext]_vars

\* the idle program around a call of a function
AllIdle ==
  ManagerInit /\ AdvancedIdle /\ ProducerIdle /\ KeyIdle /\ HandlerIdle /\ RetryIdle

\* the response collectors
CollectStart == CollectInit /\ AllIdle

CollectNext == \E scraper_type \in SupportedScraperTypes : Collect(scraper_type)

CollectSpec == CollectStart /\ [][CollectNext]_vars

\* the construction of a ValidationConfig
ConfigStart == ConfigInit /\ AllIdle

ConfigNext == ConfigFromEnv \/ ConfigFromArgs \/ GetValidationConfig

ConfigSpec == ConfigStart /\ [][ConfigNext]_vars

\* the validator of a manager
ClassifyStart == ClassifyInit /\ AllIdle

ClassifyNext == AnalyzeBlocking \/ DetectBotSystem \/ ManagerValidate

ClassifySpec == ClassifyStart /\ [][ClassifyNext]_vars

\* the simplified validation
SimplifiedStart == SimplifiedInit /\ AllIdle

SimplifiedSpec == SimplifiedStart /\ [][AttemptSimplified]_vars

\* two calls of the validator
PairStart == PairInit /\ AllIdle

PairSpec == PairStart /\ [][ValidatePair]_vars

\* threads recording errors in a handler that starts empty
RaceStart ==
  /\ RaceInit
  /\ ManagerInit /\ AdvancedIdle /\ ProducerIdle /\ KeyIdle /\ HandlerIdle /\ RetryIdle

RaceNext ==
  \/ \E t \in Threads : \E category \in RaceCategories : RaceAppend(t, category)
  \/ \E t \in Threads : RaceReadCount(t)
  \/ \E t \in Threads : RaceWriteCount(t)

RaceSpec == RaceStart /\ [][RaceNext]_vars

\* the AdvancedCache, call by call with the steps of each call
LockNext ==
  \/ \E task_data \in CacheTasks : \E data \in CacheValues \cup {"unpicklable"} :
       TracedSet(task_data, data)
  \/ \E task_data \in CacheTasks : TracedGet(task_data)
  \/ TracedTick

LockSpec == CacheInit /\ [][LockNext]_vars

\* a ValidationCache of any max_size
SizedStart ==
  /\ SizedInit
  /\ ManagerInit /\ AdvancedIdle /\ ProducerIdle /\ KeyIdle /\ HandlerIdle /\ RetryIdle

SizedNext ==
  \/ \E key \in SizedKeys : SizedSet(key)
  \/ \E key \in SizedKeys : SizedGet(key)
  \/ SizedTick

SizedSpec == SizedStart /\ [][SizedNext]_vars

\* the AdvancedCache under byte pressure
PressureStart == PressureInit /\ ManagerInit /\ ProducerIdle /\ KeyIdle /\ OthersIdle

PressureNext ==
  \/ \E task_data \in CacheTasks : \E data \in CacheValues :
       CacheSet(task_data, data, <<>>)
  \/ \E task_data \in CacheTasks : CacheGet(task_data)
  \/ OptimizeMemoryUsage

PressureSpec == PressureStart /\ [][PressureNext]_vars

\* the AdvancedCache with its maintenance worker: __init__ starts the worker
\* only when it finds a running event loop, so a cache is built with it
\* (in a coroutine) or without it; one task is set and read
SweepInit ==
  /\ acfg \in [strategy : CacheStrategy, max_entries : 1..MaxEntries,
               max_memory_size : {ac_max_memory_size},
               default_ttl : {ac_default_ttl}]
  /\ maintenance_task \in BOOLEAN
  /\ acache = [memory_cache |-> <<>>, access_order |-> <<>>, persistent |-> <<>>]
  /\ clock = 0
  /\ last_op = NoOp
  /\ last_set = [k \in CacheKeySet |-> <<>>]
  /\ ManagerInit /\ ProducerIdle /\ KeyIdle /\ OthersIdle

SweepTask ==
  [scraper_type |-> "scrapy", url |-> "https://shop.example/books",
   scraped_data |-> GoodRecords, fields |-> <<"title", "price", "image_url">>]

SweepNext ==
  \/ \E data \in CacheValues : \E ttl_override \in TtlOverrides :
       CacheSet(SweepTask, data, ttl_override)
  \/ CacheGet(SweepTask)
  \/ CacheMaintenance
  \/ CacheTick

\* time passes, and a worker that was started runs its round every minute
SweepSpec ==
  /\ SweepInit /\ [][SweepNext]_vars
  /\ WF_vars(CacheTick)
  /\ WF_vars(CacheMaintenance)

(***************************************************************************)
(* ValidationErrorHandler.classify_error(exception, component).  An         *)
(* exception is its type name and its message; a message is a token, and    *)
(* Occurs says which keywords str(exception).lower() contains.             *)
(***************************************************************************)
ErrorMessages ==
  { "boom",                 \* 'boom'
    "denied",               \* '[Errno 13] Permission denied'
    "denied_config",        \* "[Errno 13] Permission denied: 'config.ini'"
    "timeout",              \* 'Network Timeout'
    "json",                 \* 'Invalid JSON format'
    "memory",               \* 'Out of memory'
    "module" }              \* "No module named 'bs4'"

\* keyword in error_message.lower()
Occurs(keyword, message) ==
  <<keyword, message>> \in
    { <<"config", "denied_config">>,
      <<"timeout", "timeout">>, <<"network", "timeout">>,
      <<"json", "json">>, <<"format", "json">>,
      <<"memory", "memory">>,
      <<"module", "module">> }

ErrorTypes == {"ValueError", "PermissionError", "OSError", "SystemError",
               "FileNotFoundError"}

\* component: None, or a name
Components == {<<>>, <<"validator">>, <<"ScrapingValidator">>, <<"manager">>}

\* 'validator' in component.lower()
NamesValidator(component) == component \in {<<"validator">>, <<"ScrapingValidator">>}

\* the keyword families of classify_error, in the order of its branches
keyword_families ==
  << <<{"timeout", "connection", "network", "dns", "socket"}, "network", "medium">>,
     <<{"parse", "decode", "json", "csv", "format", "encoding"}, "parsing", "low">>,
     <<{"memory", "resource", "limit", "quota", "capacity"}, "resource", "high">>,
     <<{"config", "setting", "parameter", "option", "environment"},
       "configuration", "medium">>,
     <<{"import", "module", "attribute", "method", "interface"},
       "integration", "high">> >>

\* the families with a keyword in the message
FamiliesOf(message) ==
  {k \in 1..Len(keyword_families) :
     \E keyword \in keyword_families[k][1] : Occurs(keyword, message)}

process_fatal_types == {"SystemError", "OSError", "PermissionError"}

\* validation_error_handling.py ValidationErrorHandler.classify_error
classify_error(message, error_type, component) ==
  LET families == FamiliesOf(message)
  IN  IF families # {}
      THEN LET k == CHOOSE i \in families : \A j \in families : i <= j
           IN  [category |-> keyword_families[k][2], severity |-> keyword_families[k][3]]
      ELSE IF component # <<>> /\ NamesValidator(component)
      THEN [category |-> "validation", severity |-> "medium"]
      ELSE IF error_type \in process_fatal_types
      THEN [category |-> "system", severity |-> "critical"]
      ELSE [category |-> "system", severity |-> "medium"]

ErrorClassInit ==
  /\ fn_args \in [message : ErrorMessages, error_type : ErrorTypes,
                  component : Components]
  /\ fn_result = NoOp

\* handler.classify_error(exception, component)
ClassifyError ==
  /\ fn_args # NoOp
  /\ fn_result' = [op |-> "classify_error",
                   error |-> classify_error(fn_args.message, fn_args.error_type,
                                            fn_args.component)]
  /\ UNCHANGED <<fn_args, not_fvars>>

\* the classification of exceptions
ErrorClassStart == ErrorClassInit /\ AllIdle

ErrorClassSpec == ErrorClassStart /\ [][ClassifyError]_vars

(***************************************************************************)
(* ScrapingValidator._validate_data_quality and _analyze_data_consistency  *)
(* on record lists of up to MaxRecordCount records.                        *)
(***************************************************************************)
MaxRecordCount == 2            \* records in a list

\* records whose title is a title or a placeholder in either case, with or
\* without a price and an image URL ("absent": the key is missing)
QualityItems ==
  [title : {"attic", "NA", "na_lower", "None", "empty"},
   price : {"f51", "sprice", "absent"},
   image_url : {"img_a", "img_b", "absent"}]

QualityRecords ==
  UNION {[1..n -> QualityItems] : n \in 0..MaxRecordCount}

QualityInit ==
  /\ fn_args \in [scraped_data : QualityRecords]
  /\ fn_result = NoOp

\* validator._validate_data_quality(scraped_data)
ValidateDataQuality ==
  /\ fn_args # NoOp
  /\ fn_result' = [op |-> "validate_data_quality",
                   validation |-> validate_data_quality(DefaultValidatorConfig,
                                                        fn_args.scraped_data)]
  /\ UNCHANGED <<fn_args, not_fvars>>

\* validator._analyze_data_consistency(scraped_data)
AnalyzeDataConsistency ==
  /\ fn_args # NoOp
  /\ fn_result' = [op |-> "analyze_data_consistency",
                   consistency |-> analyze_data_consistency(fn_args.scraped_data)]
  /\ UNCHANGED <<fn_args, not_fvars>>

\* the scoring of record lists
QualityStart == QualityInit /\ AllIdle

QualityNext == ValidateDataQuality \/ AnalyzeDataConsistency

QualitySpec == QualityStart /\ [][QualityNext]_vars

(***************************************************************************)
(* super_scraper/pipelines.py ValidationPipeline.close_spider.  fn_args is *)
(* the pipeline and its surroundings when the spider closes; fn_result is  *)
(* what close_spider did.                                                  *)
(***************************************************************************)
\* the pipeline after __init__ and process_item: with the manager, with the
\* legacy validator only, or with no validator; the event loop of the thread:
\* running, not running, or none (get_event_loop raises RuntimeError)
PipelineInit ==
  /\ fn_args \in
       { a \in [validator_available : BOOLEAN, validation_manager : BOOLEAN,
                loop : {"running", "idle", "none"},
                first_response : BOOLEAN,
                items_collected : RecordLists,
                validation : {"verdict", "raises"}] :
           a.validation_manager => a.validator_available }
  /\ fn_result = NoOp

\* what close_spider has done when it returns
Closed(waited, task_state, verdict, logged, stored, error_stored) ==
  [op |-> "close_spider", waited |-> waited, task |-> task_state,
   verdict |-> verdict, logged |-> logged, stored |-> stored,
   error_stored |-> error_stored]

\* _validate_with_manager: with a running loop the coroutine becomes a task
\* that nothing waits for, and the method returns None
validate_with_manager(a) ==
  IF a.loop = "running"
  THEN [waited |-> FALSE, task |-> "pending", returned |-> <<>>, raised |-> FALSE]
  ELSE [waited |-> TRUE, task |-> "none",
        returned |-> IF a.validation = "verdict" THEN <<"verdict">> ELSE <<>>,
        raised |-> a.validation = "raises"]

\* _validate_with_legacy: a synchronous call of the validator
validate_with_legacy(a) ==
  [waited |-> TRUE, task |-> "none",
   returned |-> IF a.validation = "verdict" THEN <<"verdict">> ELSE <<>>,
   raised |-> a.validation = "raises"]

\* pipelines.py ValidationPipeline.close_spider
close_spider(a) ==
  IF ~a.validator_available
  THEN Closed(FALSE, "none", <<>>, FALSE, FALSE, FALSE)
  ELSE LET v == IF a.validation_manager THEN validate_with_manager(a)
                ELSE validate_with_legacy(a)
       IN  IF v.raised
           THEN Closed(v.waited, v.task, <<>>, FALSE, FALSE, TRUE)
           ELSE Closed(v.waited, v.task, v.returned,
                       v.returned # <<>>, v.returned # <<>>, FALSE)

\* pipeline.close_spider(spider)
CloseSpider ==
  /\ fn_args # NoOp
  /\ fn_result = NoOp
  /\ fn_result' = close_spider(fn_args)
  /\ UNCHANGED <<fn_args, not_fvars>>

\* the running loop gets control back and runs the task to its end; the
\* task's result is read by nobody
LoopRunsTask ==
  /\ fn_result # NoOp
  /\ fn_result.op = "close_spider"
  /\ fn_result.task = "pending"
  /\ fn_result' = [fn_result EXCEPT !.task = "done"]
  /\ UNCHANGED <<fn_args, not_fvars>>

\* the validation pipeline at the end of a crawl
PipelineStart == PipelineInit /\ AllIdle

PipelineNext == CloseSpider \/ LoopRunsTask

PipelineSpec == PipelineStart /\ [][PipelineNext]_vars

\* the AdvancedCache with every operation that touches the memory table, under
\* count pressure and byte pressure
OrderInit ==
  /\ acfg \in [strategy : CacheStrategy, max_entries : 1..MaxEntries,
               max_memory_size : PressureSizes \cup {ac_max_memory_size},
               default_ttl : {ac_default_ttl}]
  /\ maintenance_task = TRUE
  /\ acache = [memory_cache |-> <<>>, access_order |-> <<>>, persistent |-> <<>>]
  /\ clock = 0
  /\ last_op = NoOp
  /\ last_set = [k \in CacheKeySet |-> <<>>]
  /\ ManagerInit /\ ProducerIdle /\ KeyIdle /\ OthersIdle

OrderSpec == OrderInit /\ [][CacheNext]_vars

(***************************************************************************)
(* Properties of ValidationManager.validate_scraping_result                *)
(***************************************************************************)
ValidationResultFields ==
  {"is_successful", "is_blocked", "bot_detection_system", "confidence_score",
   "issues", "warnings", "metadata"}

IsValidationResult(r) ==
  /\ DOMAIN r = ValidationResultFields
  /\ r.is_successful \in BOOLEAN
  /\ r.is_blocked \in BOOLEAN

Has(tr, step) == \E i \in 1..Len(tr) : tr[i] = step
Before(tr, a, b) == \E i, j \in 1..Len(tr) : i < j /\ tr[i] = a /\ tr[j] = b

\* the metadata mark a result as degraded
Degraded(r) ==
  \/ (HasKey(r.metadata, "error") /\ r.metadata["error"] = TRUE)
  \/ (HasKey(r.metadata, "simplified_validation")
      /\ r.metadata["simplified_validation"] = TRUE)

\* the result stems from a classification that failed
FailureVerdict(r) ==
  \/ (HasKey(r.metadata, "error") /\ r.metadata["error"] = TRUE)
  \/ \E i \in 1..Len(r.issues) : r.issues[i][1] = "Validation failed"

\* C1: a call of validate_scraping_result never ends with an exception: when it
\* has ended it has returned a ValidationResult, whatever the scraper type, the
\* handle, the records, and whether the manager was closed.
C1_NeverRaises ==
  \A c \in Calls :
    /\ pc[c] # "raised"
    /\ pc[c] = "returned" =>
         /\ result[c] # <<>>
         /\ IsValidationResult(result[c][1])

\* a call with an unsupported scraper type, made after close() shut the executor
\* down, has returned
C1_Witness ==
  \E c \in Calls :
    /\ pc[c] = "returned"
    /\ task[c].scraper_type \notin SupportedScraperTypes
    /\ Has(trace[c], "classify_refused")
    /\ IsValidationResult(result[c][1])

\* C5: when the normalization of a call failed (unsupported scraper type, handle
\* that cannot be read, collection timed out), the returned result carries a
\* metadata flag that marks it as degraded.
C5_DegradedIsFlagged ==
  \A c \in Calls :
    (pc[c] = "returned" /\ norm_failed[c]) => Degraded(result[c][1])

\* the order of the steps of a call, as its trace has them
C6_StepOrder ==
  \A c \in Calls :
    /\ trace[c] # <<>> => trace[c][1] = "cache_get"
    /\ Has(trace[c], "normalize") =>
         /\ Before(trace[c], "cache_get", "normalize")
         /\ ~Has(trace[c], "cache_hit")
    /\ Has(trace[c], "classify") =>
         /\ Before(trace[c], "normalize", "classify")
         /\ ~Has(trace[c], "cache_hit")
    /\ Has(trace[c], "cache_hit") => trace[c] = <<"cache_get", "cache_hit">>

\* the step of a call that hits the cache
C6_HitReturnsCached ==
  \A c \in Calls :
    (pc[c] = "idle" /\ Has(trace'[c], "cache_hit")) =>
      /\ \E i \in 1..Len(cache) :
           /\ cache[i].key = generate_cache_key(task'[c]).key
           /\ result'[c] = <<cache[i].result>>
      /\ cache' = cache
      /\ queue' = queue
      /\ worker' = worker
      /\ pc'[c] = "returned"

C7_FailuresNotCached ==
  \A i \in 1..Len(cache) : ~FailureVerdict(cache[i].result)

\* C8: a call that waits for the normalization or for the classifier eventually
\* returns.
C8_BoundedSteps ==
  \A c \in Calls : (pc[c] \in {"normalize", "classify"}) ~> (pc[c] = "returned")

\* the calls have one fingerprint
SameFingerprint ==
  \A c, d \in Calls : /\ ~generate_cache_key(task[c]).raised
                      /\ generate_cache_key(task[c]) = generate_cache_key(task[d])

\* C9: the cache never holds two entries for one fingerprint; and when calls with
\* the same fingerprint that all missed the cache have all returned (the manager
\* not being closed), the cache holds exactly one entry for the fingerprint and
\* its value is the result of one of the calls.
C9_OneEntryPerFingerprint ==
  /\ \A i, j \in 1..Len(cache) : cache[i].key = cache[j].key => i = j
  /\ ( /\ \A c \in Calls : pc[c] = "returned" /\ Has(trace[c], "cache_set")
       /\ SameFingerprint
       /\ close_pc = "idle" )
     => /\ Cardinality({i \in 1..Len(cache) :
                          cache[i].key = generate_cache_key(task[1]).key}) = 1
        /\ \E i \in 1..Len(cache) : \E c \in Calls :
             /\ cache[i].key = generate_cache_key(task[1]).key
             /\ cache[i].result = result[c][1]

\* two calls with one fingerprint, the second started while the first was under
\* way, have both classified, stored and returned
C9_Witness ==
  /\ \A c \in Calls : pc[c] = "returned" /\ Has(trace[c], "classify")
  /\ SameFingerprint
  /\ close_pc = "idle"
  /\ result[1][1] # result[2][1]
  /\ start_time[2] < result[1][1].metadata["validation_timestamp"]
  /\ Len(cache) = 1

\* the counters add up and the window of validation times is bounded
C12_Counters ==
  /\ stats.total_validations =
       stats.successful_validations + stats.blocked_validations
       + stats.cached_validations + stats.error_validations
  /\ Len(stats.validation_times) <= 100

\* a step adds to total_validations the number of calls that end in it
C12_CountedOnce ==
  stats'.total_validations = stats.total_validations
    + Cardinality({c \in Calls : /\ pc[c] \notin {"returned", "raised"}
                                 /\ pc'[c] \in {"returned", "raised"}})

\* C12: after any interleaving of calls, each completed call has incremented
\* total_validations exactly once, total_validations is the sum of the
\* successful, blocked, cached and error counters, and validation_times holds
\* at most 100 entries.
C12_Statistics == []C12_Counters /\ [][C12_CountedOnce]_vars

\* all calls have returned, more than 100 calls were counted, and the window
\* holds the last 100 validation times
C12_Witness ==
  /\ \A c \in Calls : pc[c] = "returned"
  /\ stats.total_validations = PriorCalls + MaxCalls
  /\ stats.total_validations > 100
  /\ Len(stats.validation_times) = 100
  /\ stats.cached_validations > 0

(***************************************************************************)
(* Properties of AdvancedCache                                             *)
(***************************************************************************)
\* the key the last call of the cache was about
LastKey == AdvancedCache_generate_cache_key(last_op.task)

\* C2: a get(T) that follows a set(T, V) at once, nothing in between and no time
\* passed, returns V, whatever the strategy and max_entries.
C2_RoundTrip ==
  (last_op.op = "get" /\ last_op.after_set # <<>>)
    => last_op.result = last_op.after_set

\* C3, past the ttl: a get(T) issued more than ttl after the last set(T, V, ttl)
\* is a miss.
C3_NoHitPastTtl ==
  (last_op.op = "get" /\ last_set[LastKey] # <<>>)
    => (clock - last_set[LastKey][1].time > last_set[LastKey][1].ttl
          => last_op.result = <<>>)

\* C3, within the ttl: a get(T) issued less than ttl after the last set(T, V, ttl)
\* returns V.
C3_HitWithinTtl ==
  (last_op.op = "get" /\ last_set[LastKey] # <<>>)
    => (clock - last_set[LastKey][1].time < last_set[LastKey][1].ttl
          => last_op.result = <<last_set[LastKey][1].data>>)

\* C3: after set(T, V, ttl) every get(T) issued more than ttl later is a miss and
\* every get(T) issued less than ttl later returns V, whatever the strategy and
\* whatever gets, evictions and promotions happened in between.
C3_TtlExpiry == C3_NoHitPastTtl /\ C3_HitWithinTtl

\* C4: the in-memory table never holds more than max_entries entries.
C4_EvictionBound == Len(acache.memory_cache) <= acfg.max_entries

\* a set into a full table has evicted an entry whose ttl has not passed
C4_Witness ==
  /\ last_op.op = "set"
  /\ acfg.strategy # "persistent"
  /\ Len(acache.memory_cache) = acfg.max_entries
  /\ LastKey \in MemoryKeys(acache.memory_cache)
  /\ \E k \in CacheKeySet :
       /\ k \notin MemoryKeys(acache.memory_cache)
       /\ last_set[k] # <<>>
       /\ clock - last_set[k][1].time <= last_set[k][1].ttl

(***************************************************************************)
(* Properties of the results produced                                      *)
(***************************************************************************)
\* C10: a result of the validator, of the simplified validation or of the
\* manager's error path is never both blocked and successful, and a blocked
\* result of the validator has no data_stats in its metadata.
C10_BlockedNotSuccessful ==
  produced # NoOp =>
    /\ produced.result.is_blocked => ~produced.result.is_successful
    /\ (produced.op = "validator" /\ produced.result.is_blocked)
         => ~HasKey(produced.result.metadata, "data_stats")

\* the validator has judged a blocked response that came with complete records
C10_Witness ==
  /\ produced # NoOp
  /\ produced.op = "validator"
  /\ produced.result.is_blocked
  /\ ~produced.result.is_successful
  /\ context.scraped_data = GoodRecords
  /\ validate_data_quality(DefaultValidatorConfig, context.scraped_data).is_valid

(***************************************************************************)
(* Properties of the cache keys                                            *)
(***************************************************************************)
\* the two tasks have the same scraper type, url, record count and first five
\* records (records are equal as dicts are: same keys, same values)
SameKeyData ==
  /\ key_tasks[1].scraper_type = key_tasks[2].scraper_type
  /\ key_tasks[1].url = key_tasks[2].url
  /\ Len(key_tasks[1].scraped_data) = Len(key_tasks[2].scraped_data)
  /\ \A i \in 1..Min(5, Len(key_tasks[1].scraped_data)) :
       key_tasks[1].scraped_data[i] = key_tasks[2].scraped_data[i]

\* the two tasks differ in the scraper type and in nothing else
DifferInTypeOnly ==
  /\ key_tasks[1].scraper_type # key_tasks[2].scraper_type
  /\ [key_tasks[1] EXCEPT !.scraper_type = "", !.task_id = 0]
       = [key_tasks[2] EXCEPT !.scraper_type = "", !.task_id = 0]

\* C11: in both caches, two tasks with the same scraper type, url, record count
\* and first five records get the same key, whatever their response handles,
\* task ids and later records; two tasks that differ only in the scraper type
\* get different keys.
C11_KeyDeterminism ==
  key_result # NoOp =>
    /\ SameKeyData => key_result.keys[1] = key_result.keys[2]
    /\ DifferInTypeOnly => key_result.keys[1] # key_result.keys[2]

(***************************************************************************)
(* Properties of the ValidationErrorHandler                                *)
(***************************************************************************)
\* C13: handle_error invokes the strategies of the error's category one at a
\* time in the order of the list, goes on to the next strategy when one returns
\* False or raises, invokes none after the first that returns True, and returns
\* True exactly when a strategy returned True.
C13_StrategiesInOrder ==
  recovery.op \in {"recovering", "returned"} =>
    LET strategies == recovery_strategies[recovery.category]
        invoked == recovery.invoked
    IN  /\ Len(invoked) <= Len(strategies)
        /\ \A j \in 1..Len(invoked) : invoked[j].name = strategies[j].name
        /\ \A j \in 1..(Len(invoked) - 1) : invoked[j].outcome # "true"
        /\ recovery.op = "recovering" =>
             /\ recovery.i = Len(invoked) + 1
             /\ \A j \in 1..Len(invoked) : invoked[j].outcome # "true"
        /\ recovery.op = "returned" =>
             /\ recovery.result =
                  (\E j \in 1..Len(invoked) : invoked[j].outcome = "true")
             /\ ~recovery.result => Len(invoked) = Len(strategies)

C13_Witness ==
  /\ recovery.op = "returned"
  /\ recovery.category = "integration"
  /\ recovery.result
  /\ recovery.invoked =
       <<[name |-> "RetryWithBackoff", outcome |-> "raise"],
         [name |-> "FallbackResponseData", outcome |-> "false"],
         [name |-> "SimplifiedValidation", outcome |-> "true"]>>

C15_Bounded ==
  LET errors == handler.errors
  IN  /\ Len(errors) <= 1000
      /\ \A i \in 1..(Len(errors) - 1) : errors[i + 1].seq = errors[i].seq + 1
      /\ errors # <<>> => errors[Len(errors)].seq = handler.arrivals

C15_DropsOnlyAtCap ==
  handler'.arrivals = handler.arrivals + 1 =>
    Len(handler'.errors) = Min(Len(handler.errors) + 1, 1000)

\* C15: after any sequence of record_error and handle_error calls the history
\* holds at most 1000 errors; they are the most recent ones in the order of
\* their arrival, and an error is dropped only when the history is full.
C15_BoundedHistory == []C15_Bounded /\ [][C15_DropsOnlyAtCap]_vars

C15_Witness ==
  /\ handler.arrivals = PriorErrors + MaxNewErrors
  /\ Len(handler.errors) = 1000
  /\ handler.errors[1].seq = 2
  /\ recovery.op = "returned"
  /\ recovery.seq = handler.arrivals

(***************************************************************************)
(* Properties of RetryWithBackoffStrategy                                  *)
(***************************************************************************)
\* C14: attempt_recovery calls the retry operation at most max_attempts times,
\* never again after a call returned a truthy result, and then returns True; a
\* call that raises is a failed attempt; after max_attempts failed attempts it
\* returns False; without a retry operation it returns False with no call and
\* no delay; the delay before attempt k is min(base_delay * 2^k, max_delay).
C14_RetryWithBackoff ==
  LET strategy == retry.strategy
      outcomes == retry.outcomes
      delays == retry.delays
  IN  /\ Len(outcomes) <= strategy.max_attempts
      /\ \A j \in 1..(Len(outcomes) - 1) : outcomes[j] # "truthy"
      /\ \A k \in 1..Len(delays) :
           delays[k] = Min(strategy.base_delay * (2 ^ (k - 1)), strategy.max_delay)
      /\ Len(delays) = Len(outcomes) + (IF retry.op = "sleeping" THEN 1 ELSE 0)
      /\ retry.op = "returned" =>
           /\ retry.result = (\E j \in 1..Len(outcomes) : outcomes[j] = "truthy")
           /\ (~retry.result /\ retry.has_operation) =>
                Len(outcomes) = strategy.max_attempts
           /\ ~retry.has_operation =>
                ~retry.result /\ outcomes = <<>> /\ delays = <<>>

C14_Witness ==
  /\ retry.op = "returned"
  /\ retry.result
  /\ retry.outcomes = <<"raise", "falsy", "truthy">>
  /\ retry.strategy = RetryWithBackoffStrategy(2, 3)
  /\ retry.delays = <<2, 3, 3>>

(***************************************************************************)
(* Properties of the response collectors                                   *)
(***************************************************************************)
\* the attributes a collector looks for before it reads the handle
ExpectedAttrs(scraper_type) ==
  CASE scraper_type = "scrapy" -> {{"status"}}
    [] scraper_type = "playwright" -> {{"url"}}
    [] scraper_type = "pydoll" -> {{"url", "go_to"}, {"status_code", "headers"}}

\* the collector cannot read the handle: it lacks the expected attributes (as
\* None does) or raises on access
CannotRead(scraper_type, source) ==
  \/ source.raises
  \/ \A expected \in ExpectedAttrs(scraper_type) : ~(expected \subseteq source.attrs)

\* C16: a response collector never raises, and when it cannot read the handle
\* (expected attributes missing, None, or access raises) it returns a response
\* with status_code 0 and empty content.
C16_FailureContract ==
  fn_result # NoOp =>
    /\ fn_result.outcome.kind # "raise"
    /\ CannotRead(fn_result.op, fn_args.source) =>
         /\ fn_result.outcome.kind = "return"
         /\ fn_result.outcome.data.status_code = 0
         /\ fn_result.outcome.data.content = ""

(***************************************************************************)
(* Properties of ValidationConfig                                          *)
(***************************************************************************)
\* C17: a ValidationConfig obtained from the environment, from
\* create_from_args or from get_validation_config has min_data_quality_score
\* in [0, 1], validation_timeout > 0, cache_ttl > 0 and max_content_size > 0.
C17_ConfigValid ==
  fn_result # NoOp =>
    /\ RLeq(RZero, fn_result.config.min_data_quality_score)
    /\ RLeq(fn_result.config.min_data_quality_score, <<1, 1>>)
    /\ fn_result.config.validation_timeout > 0
    /\ fn_result.config.cache_ttl > 0
    /\ fn_result.config.max_content_size > 0

(***************************************************************************)
(* Properties of the validator of a manager                                *)
(***************************************************************************)
\* some required field of the configuration has zero completeness
MissingRequired(config, scraped_data) ==
  LET fc == field_completeness(scraped_data)
  IN  \E i \in 1..Len(config.min_required_fields) :
        IF config.min_required_fields[i] \in DOMAIN fc
        THEN fc[config.min_required_fields[i]].completeness = RZero
        ELSE TRUE

\* the weighted quality score of the records
WeightedScore(scraped_data) ==
  validate_data_quality([min_data_quality_score |-> RZero,
                         min_required_fields |-> <<>>], scraped_data).quality_score

HasIssue(verdict, text) ==
  \E i \in 1..Len(verdict.issues) : verdict.issues[i][1] = text

\* C18: a ValidationManager built with a ValidationConfig of quality threshold q
\* and required fields R gives, for a response that is not blocked and records
\* that were scored, is_successful = (weighted score >= q), and the scoring
\* aborts with a missing-required-field issue exactly when a field of R has zero
\* completeness.
C18_ConfiguredThresholds ==
  (/\ fn_result # NoOp
   /\ fn_result.op = "validate_scraping_result"
   /\ ~fn_result.result.is_blocked
   /\ HasKey(fn_result.result.metadata, "data_stats")
   /\ fn_args.scraped_data # <<>>) =>
    LET missing == MissingRequired(fn_args.config, fn_args.scraped_data)
    IN  /\ HasIssue(fn_result.result, "Missing required fields") <=> missing
        /\ ~missing =>
             (fn_result.result.is_successful
                <=> RLeq(fn_args.config.min_data_quality_score,
                         WeightedScore(fn_args.scraped_data)))

\* the issues of a verdict that come from the blocking analysis
BlockingIssues(verdict) ==
  SelectSeq(verdict.issues, LAMBDA issue : issue[1] # "Validation failed")

\* the status code has no part in the blocking found
StatusAloneNeverBlocks(rd, analysis) ==
  /\ analysis = analyze_blocking([rd EXCEPT !.status_code = 200])
  /\ analysis.is_blocked =>
       \E i \in 1..Len(analysis.issues) :
         analysis.issues[i][1] \in {"Content blocking detected",
                                    "Redirected to blocking page"}

\* C19: for a status code of the table (401, 403, 429, 451, 503) the verdict is
\* blocked, its block_type is the table's entry and its only blocking issue is
\* the HTTP one, whatever the content, the URL and the headers are; for any
\* other status code the status check alone never sets is_blocked.
C19_StatusShortCircuit ==
  LET status_code == fn_args.response_data.status_code
      entry == blocking_status_codes[status_code]
  IN  /\ (fn_result # NoOp /\ fn_result.op = "validate_scraping_result") =>
           IF status_code \in {401, 403, 429, 451, 503}
           THEN /\ fn_result.result.is_blocked
                /\ fn_result.result.metadata["block_type"] = entry[2]
                /\ BlockingIssues(fn_result.result) = <<Issue("HTTP", entry[1])>>
           ELSE fn_result.result.is_blocked =
                  analyze_blocking([fn_args.response_data
                                      EXCEPT !.status_code = 200]).is_blocked
      /\ (fn_result # NoOp /\ fn_result.op = "analyze_blocking") =>
           IF status_code \in {401, 403, 429, 451, 503}
           THEN /\ fn_result.analysis.is_blocked
                /\ fn_result.analysis.block_type = entry[2]
                /\ fn_result.analysis.issues = <<Issue("HTTP", entry[1])>>
           ELSE StatusAloneNeverBlocks(fn_args.response_data, fn_result.analysis)

C19_Witness ==
  /\ fn_result # NoOp
  /\ fn_result.op = "validate_scraping_result"
  /\ fn_args.response_data.status_code = 451
  /\ fn_args.response_data.content = "captcha_login"
  /\ fn_args.response_data.url = "https://example.com/login"
  /\ fn_args.response_data.headers = <<"x-blocked-by">>
  /\ fn_result.result.is_blocked
  /\ fn_result.result.metadata["block_type"] = "geographic_block"
  /\ Len(fn_result.result.issues) = 1

\* the signatures that match the headers and the content, in the order of the
\* tables: <<system, confidence, indicator>>
SignatureMatches(rd) ==
  SignatureEvents(load_bot_signatures_headers, rd.headers, "Header", 1, 1)
  \o (IF rd.content # ""
      THEN SignatureEvents(load_bot_signatures_content, <<rd.content>>,
                           "Content pattern", 1, 1)
      ELSE <<>>)

\* the name a verdict gives to a system of the signature tables
SystemNames(system) == {system} \cup (IF system = "custom" THEN {"custom_system"} ELSE {})

\* C20: the verdict's bot_detection_system is the system of a matching header
\* or content signature of maximal confidence, none when nothing matches, and
\* metadata.bot_indicators lists every signature that matched.
C20_BotSystem ==
  (fn_result # NoOp /\ fn_result.op = "validate_scraping_result") =>
    LET matches == SignatureMatches(fn_args.response_data)
        verdict == fn_result.result
    IN  IF matches = <<>>
        THEN verdict.bot_detection_system = "none"
        ELSE /\ \E i \in 1..Len(matches) :
                  /\ \A j \in 1..Len(matches) : matches[j][2] <= matches[i][2]
                  /\ verdict.bot_detection_system \in SystemNames(matches[i][1])
             /\ HasKey(verdict.metadata, "bot_indicators")
             /\ verdict.metadata["bot_indicators"] =
                  [i \in 1..Len(matches) |-> matches[i][3]]

\* C21: for a response that is not blocked and a non-empty record list, when a
\* required field has no record with a non-empty, non-placeholder value, the
\* verdict is not successful, has an issue that names the missing required
\* fields, and its data_stats hold no quality_factors.
C21_RequiredFieldAbort ==
  (/\ fn_result # NoOp
   /\ fn_result.op = "validate_scraping_result"
   /\ ~fn_result.result.is_blocked
   /\ fn_args.scraped_data # <<>>
   /\ MissingRequired(ManagerValidatorConfig(fn_args.config), fn_args.scraped_data)) =>
    /\ ~fn_result.result.is_successful
    /\ HasIssue(fn_result.result, "Missing required fields")
    /\ HasKey(fn_result.result.metadata, "data_stats")
    /\ ~HasKey(fn_result.result.metadata["data_stats"], "quality_factors")

C23_ConfidenceFromFields ==
  fn_result # NoOp =>
    LET v1 == fn_result.results[1]
        v2 == fn_result.results[2]
    IN  (/\ v1.is_successful = v2.is_successful
         /\ v1.is_blocked = v2.is_blocked
         /\ v1.bot_detection_system = v2.bot_detection_system
         /\ v1.issues = v2.issues
         /\ v1.warnings = v2.warnings
         /\ v1.metadata = v2.metadata)
        => v1.confidence_score = v2.confidence_score

(***************************************************************************)
(* Properties of the AdvancedCache's maintenance                           *)
(***************************************************************************)
\* the memory table holds an expired entry under the key
ExpiredInMemory(key) ==
  /\ key \in MemoryKeys(acache.memory_cache)
  /\ is_expired(MemoryEntry(acache.memory_cache, key), acfg.default_ttl, clock)

\* C24: in every AdvancedCache, however it was constructed, an entry of the
\* memory table that has expired and is not requested again is eventually
\* removed from the table by the maintenance sweep.
C24_SweepLiveness ==
  \A key \in CacheKeySet : ExpiredInMemory(key) ~> ~ExpiredInMemory(key)

\* get(task_data) finds the key in no memory entry and leaves it in one: the
\* entry was promoted from the disk tier
Promotes(task_data) ==
  LET cache_key == AdvancedCache_generate_cache_key(task_data)
  IN  /\ CacheGet(task_data)
      /\ acfg.strategy = "hybrid"
      /\ cache_key \notin MemoryKeys(acache.memory_cache)
      /\ cache_key \in MemoryKeys(acache'.memory_cache)

\* the promoted entry and the file carry the time and ttl of the original set
PromotedAsSet(cache_key) ==
  LET entry == MemoryEntry(acache'.memory_cache, cache_key)
      original == last_set[cache_key][1]
  IN  /\ last_set[cache_key] # <<>>
      /\ entry.timestamp = original.time
      /\ (IF entry.ttl_override # <<>> THEN entry.ttl_override[1]
          ELSE acfg.default_ttl) = original.ttl
      /\ cache_key \in DOMAIN acache'.persistent
      /\ acache'.persistent[cache_key].mtime = original.time

\* C25: when a HYBRID cache serves get(T) from the disk tier and promotes the
\* entry into memory, the promoted entry's creation timestamp and ttl_override
\* and the file's modification time are those of the original set(T, V): a
\* read does not extend the entry's remaining lifetime.
C25_PromotionKeepsTime ==
  [][\A task_data \in CacheTasks :
       Promotes(task_data)
         => PromotedAsSet(AdvancedCache_generate_cache_key(task_data))]_vars

\* set(task_data, ...) of a cache that keeps entries in memory
SetsInMemory(task_data) ==
  /\ acfg.strategy \in {"memory_only", "hybrid"}
  /\ \E data \in CacheValues : \E ttl_override \in TtlOverrides :
       CacheSet(task_data, data, ttl_override)

\* the key in memory whose most recent set or get-hit is the oldest: the first
\* key of the access order that is in the table
RECURSIVE LeastRecentlyUsed(_, _)
LeastRecentlyUsed(access_order, keys) ==
  IF access_order = <<>> THEN {}
  ELSE IF Head(access_order) \in keys THEN {Head(access_order)}
  ELSE LeastRecentlyUsed(Tail(access_order), keys)

\* C26: a set that inserts a new key into a memory table that already holds
\* max_entries entries evicts exactly one entry, the least recently set or
\* hit one; a set that overwrites a key already in the table evicts no other
\* key.
C26_LruEviction ==
  [][\A task_data \in CacheTasks :
       SetsInMemory(task_data)
         => LET cache_key == AdvancedCache_generate_cache_key(task_data)
                before == MemoryKeys(acache.memory_cache)
                after == MemoryKeys(acache'.memory_cache)
            IN  IF cache_key \in before
                THEN after = before
                ELSE IF Len(acache.memory_cache) >= acfg.max_entries
                THEN after = (before \ LeastRecentlyUsed(acache.access_order, before))
                               \cup {cache_key}
                ELSE after = before \cup {cache_key}]_vars

\* the entries of a table that another table no longer holds
Evicted(before, after) ==
  {e \in SeqRange(before) : e.key \notin MemoryKeys(after)}

\* no evicted entry has a higher access_count / size_bytes than a retained one
EvictedLeastUseful(before, after) ==
  \A e \in Evicted(before, after) : \A r \in SeqRange(after) :
    e.access_count * r.size_bytes <= r.access_count * e.size_bytes

\* C27: when _optimize_memory_usage runs while the sizes of the memory entries
\* sum to more than max_memory_size, the sum is afterwards at most 80% of
\* max_memory_size and every evicted entry has an access_count / size_bytes
\* no greater than that of every retained entry; when the sum does not exceed
\* max_memory_size the memory table and the access order are unchanged.
C27_BytePressure ==
  fn_result.op = "optimize_memory_usage"
    => IF SumSizes(fn_args.ac.memory_cache) > acfg.max_memory_size
       THEN /\ 10 * SumSizes(fn_result.ac.memory_cache) <= 8 * acfg.max_memory_size
            /\ EvictedLeastUseful(fn_args.ac.memory_cache, fn_result.ac.memory_cache)
       ELSE /\ fn_result.ac.memory_cache = fn_args.ac.memory_cache
            /\ fn_result.ac.access_order = fn_args.ac.access_order

\* an optimization that evicted one of two entries and kept the more useful
C27_Witness ==
  /\ fn_result.op = "optimize_memory_usage"
  /\ SumSizes(fn_args.ac.memory_cache) > acfg.max_memory_size
  /\ Len(fn_args.ac.memory_cache) = 2
  /\ Len(fn_result.ac.memory_cache) = 1
  /\ fn_args.ac.memory_cache[1].key \in MemoryKeys(fn_result.ac.memory_cache)
  /\ fn_result.ac.memory_cache[1].access_count > 0

(***************************************************************************)
(* Properties of a ValidationCache of its own                              *)
(***************************************************************************)
\* C28: a ValidationCache constructed with any max_size >= 1 never stores
\* more than max_size entries, whatever calls of set and get are made.
C28_SizeBound ==
  fn_args.op = "ValidationCache" => Len(cache) <= fn_args.max_size

(***************************************************************************)
(* Properties of the AdvancedCache's locking                               *)
(***************************************************************************)
HeavySteps ==
  {"serialize", "deserialize", "compress", "decompress", "disk_read", "disk_write"}

\* C29: the cache lock covers index mutation only: no call of get or set
\* serializes, deserializes, compresses or reads or writes the disk while it
\* holds the lock.
C29_LockCoversIndexOnly ==
  fn_result.op \in {"get", "set"}
    => \A i \in 1..Len(fn_result.steps) :
         fn_result.steps[i].what \in HeavySteps => fn_result.steps[i].lock = 0

(***************************************************************************)
(* Properties of concurrent record_error calls                             *)
(***************************************************************************)
RECURSIVE SumCounts(_, _)
SumCounts(error_counts, keys) ==
  IF keys = {} THEN 0
  ELSE LET k == CHOOSE x \in keys : TRUE
       IN  error_counts[k] + SumCounts(error_counts, keys \ {k})

\* the calls of record_error that have completed
RECURSIVE CompletedCalls(_)
CompletedCalls(ts) ==
  IF ts = {} THEN 0
  ELSE LET t == CHOOSE x \in ts : TRUE
       IN  fn_args.threads[t].calls + CompletedCalls(ts \ {t})

\* C30: when several threads call record_error concurrently no update is
\* lost: once n calls have completed, from an empty handler and with n <= 1000,
\* the history holds n errors and the counts per category and severity sum to n.
C30_NoLostUpdate ==
  (/\ fn_args.op = "record_error"
   /\ \A t \in Threads : fn_args.threads[t].pc = "idle")
    => /\ Len(handler.errors) = CompletedCalls(Threads)
       /\ SumCounts(handler.error_counts, DOMAIN handler.error_counts)
            = CompletedCalls(Threads)

(***************************************************************************)
(* Properties of the classification of blocked responses                   *)
(***************************************************************************)
\* the families of blocking indicators, in the table's order, that the content
\* matches
MatchingFamilies(content) ==
  {k \in 1..Len(load_blocking_indicators) :
     FirstIndicator(load_blocking_indicators[k][2], content) # ""}

\* C31: for a response whose status is not in the blocking table and whose
\* content matches indicators of more than one family, metadata.block_type is
\* the type of the first matching family in the order captcha, login-required,
\* access-denied, rate-limit.
C31_FirstDecisiveMatch ==
  (/\ fn_result # NoOp
   /\ fn_result.op = "validate_scraping_result"
   /\ fn_args.response_data.status_code \notin DOMAIN blocking_status_codes
   /\ Cardinality(MatchingFamilies(fn_args.response_data.content)) > 1)
    => LET families == MatchingFamilies(fn_args.response_data.content)
           first == CHOOSE k \in families : \A j \in families : k <= j
       IN  /\ HasKey(fn_result.result.metadata, "block_type")
           /\ fn_result.result.metadata["block_type"] =
                get_block_type_from_category(load_blocking_indicators[first][1])

\* C32: for a response whose only matching bot signatures are custom content
\* patterns, classification completes without an internal error and the
\* verdict has bot_detection_system = Custom with the matches listed in
\* metadata.bot_indicators.
C32_CustomSystem ==
  (fn_result # NoOp /\ fn_result.op = "validate_scraping_result") =>
    LET matches == SignatureMatches(fn_args.response_data)
        verdict == fn_result.result
    IN  (/\ matches # <<>>
         /\ \A i \in 1..Len(matches) : matches[i][1] = "custom")
          => /\ ~HasIssue(verdict, "Validation failed")
             /\ verdict.bot_detection_system = "custom_system"
             /\ HasKey(verdict.metadata, "bot_indicators")
             /\ verdict.metadata["bot_indicators"] =
                  [i \in 1..Len(matches) |-> matches[i][3]]

(***************************************************************************)
(* Properties of ValidationErrorHandler.classify_error                     *)
(***************************************************************************)
\* C33: classify_error gives severity Critical to every exception whose type
\* is PermissionError, OSError or SystemError, whatever its message and
\* component; and gives category System with severity Medium exactly when no
\* keyword family, no validator component and no process-fatal type matches.
C33_FatalIsCritical ==
  (fn_result # NoOp /\ fn_result.op = "classify_error") =>
    /\ fn_args.error_type \in {"PermissionError", "OSError", "SystemError"}
         => fn_result.error.severity = "critical"
    /\ (fn_result.error = [category |-> "system", severity |-> "medium"])
         <=> (/\ FamiliesOf(fn_args.message) = {}
              /\ ~(fn_args.component # <<>> /\ NamesValidator(fn_args.component))
              /\ fn_args.error_type \notin {"PermissionError", "OSError", "SystemError"})

(***************************************************************************)
(* Properties of the data quality scoring                                  *)
(***************************************************************************)
\* values that, trimmed and compared without regard to case, are '', 'None',
\* 'null' or 'N/A', and values that are missing or None
PlaceholderAnyCase(v) == v \in {"absent", "None", "empty", "NA", "na_lower"}

\* C34: in the field completeness a value that, after trimming, equals '',
\* 'None', 'null' or 'N/A' under case-insensitive comparison is not counted,
\* so a field whose values are all such placeholders has completeness 0.
C34_PlaceholdersNotCounted ==
  (/\ fn_result # NoOp
   /\ fn_result.op = "validate_data_quality"
   /\ fn_args.scraped_data # <<>>)
    => LET fc == fn_result.validation.stats["field_completeness"]
       IN  \A f \in SeqRange(ExpectedFields) :
             /\ fc[f].count =
                  Cardinality({i \in 1..Len(fn_args.scraped_data) :
                     ~PlaceholderAnyCase(ItemGet(fn_args.scraped_data[i], f))})
             /\ (\A i \in 1..Len(fn_args.scraped_data) :
                   PlaceholderAnyCase(ItemGet(fn_args.scraped_data[i], f)))
                  => fc[f].completeness = RZero

\* neither an image-URL domain nor two prices to compare
NothingComparable(scraped_data) ==
  /\ \A i \in 1..Len(scraped_data) : UrlNetloc(ItemGet(scraped_data[i], "image_url")) = ""
  /\ Cardinality({i \in 1..Len(scraped_data) :
                    PyTruthy(ItemGet(scraped_data[i], "price"))}) < 2

\* C35: the consistency sub-score is 0.8 whenever the record set has fewer than
\* 2 records, and also whenever it has 2 or more records but no comparable
\* image-URL domain or price field.
C35_ConsistencyDefault ==
  (fn_result # NoOp /\ fn_result.op = "analyze_data_consistency")
    => ((Len(fn_args.scraped_data) < 2 \/ NothingComparable(fn_args.scraped_data))
          => fn_result.consistency = <<8, 10>>)

(***************************************************************************)
(* Properties of the Scrapy validation pipeline                            *)
(***************************************************************************)
\* C36: close_spider, when the validation manager is available, always waits
\* for the validation task and obtains a verdict, which it logs and stores in
\* the stats, whether or not an event loop is already running.
C36_ValidationNeverSkipped ==
  (/\ fn_result # NoOp
   /\ fn_result.op = "close_spider"
   /\ fn_args.validation_manager)
    => /\ fn_result.waited
       /\ fn_args.validation = "verdict"
            => /\ fn_result.verdict # <<>>
               /\ fn_result.logged
               /\ fn_result.stored

\* C37: after any sequence of set, get, _cleanup_expired,
\* _optimize_memory_usage and clear the access-order queue holds exactly the
\* keys of the in-memory table, each once, so that an eviction from a
\* non-empty table finds a key to remove.
C37_AccessOrderMatchesTable ==
  /\ SeqRange(acache.access_order) = MemoryKeys(acache.memory_cache)
  /\ Len(acache.access_order) = Len(acache.memory_cache)
  /\ Cardinality(MemoryKeys(acache.memory_cache)) = Len(acache.memory_cache)

\* two entries whose access order differs from the order of insertion after a
\* hit, in a cache whose byte limit two entries can exceed
C37_Witness ==
  /\ Len(acache.memory_cache) = 2
  /\ last_op.op = "get"
  /\ last_op.result # <<>>
  /\ acache.access_order[1] = acache.memory_cache[2].key
  /\ acfg.max_memory_size \in PressureSizes

(***************************************************************************)
(* Properties of the verdicts and counters of the ValidationManager        *)
(***************************************************************************)
\* a verdict the validator computed (not one built by _create_error_result)
Computed(verdict) == ~HasKey(verdict.metadata, "error")

\* C38: with caching enabled, the verdict returned to the call with task_id i
\* has metadata.task_id = i, also when it is served from the cache after being
\* computed for a task with another task_id.
C38_VerdictNamesRequester ==
  \A c \in Calls :
    (pc[c] = "returned" /\ Computed(result[c][1]))
      => /\ HasKey(result[c][1].metadata, "task_id")
         /\ result[c][1].metadata["task_id"] = task[c].task_id

\* the calls that returned a verdict that was not served from the cache
ReturnedFresh ==
  {c \in Calls : pc[c] = "returned" /\ (\A i \in 1..Len(trace[c]) : trace[c][i] # "cache_hit")}

\* C39: blocked_validations is the number of returned verdicts, not served from
\* the cache, with is_blocked true, and error_validations is the number of
\* returned verdicts with metadata.error true.
C39_CountersMatchVerdicts ==
  /\ stats.blocked_validations =
       Cardinality({c \in ReturnedFresh : result[c][1].is_blocked})
  /\ stats.error_validations =
       Cardinality({c \in Calls : /\ pc[c] = "returned"
                                  /\ HasKey(result[c][1].metadata, "error")})

\* C40: every verdict of ScrapingValidator.validate_scraping_result with
\* is_blocked true has a metadata.block_type other than none, also when the
\* only blocking evidence is a pattern in the URL path.
C40_BlockedNamesType ==
  (/\ fn_result # NoOp
   /\ fn_result.op = "validate_scraping_result"
   /\ fn_result.result.is_blocked)
    => /\ HasKey(fn_result.result.metadata, "block_type")
       /\ fn_result.result.metadata["block_type"] # "none"

=============================================================================
